---- MODULE Spec2Model ----
(***************************************************************************)
(* A model of the POS QR order scanner: the scanner's multi-format QR      *)
(* parser, the Remix route handlers in front of the Shopify Admin GraphQL  *)
(* API, the scanner view (Modal) and the offline manager.                  *)
(*                                                                         *)
(* Strings are sequences of one-character strings, so that the regular     *)
(* expressions, JSON.parse and the template literals of the source are     *)
(* computed character by character.                                        *)
(***************************************************************************)
EXTENDS Integers, Sequences, FiniteSets, TLC

(***************************************************************************)
(* Bounds of the model.                                                    *)
(***************************************************************************)
\* the longest run of digits in a generated input
MaxDigits == 2
\* the most orders an upstream orders query returns
MaxOrders == 2

\* the scans the scanner view takes up, and the search requests it sends
MaxScans == 2
MaxRequests == 2

\* the handlers of the offline manager that wait at once, and the length of
\* the sync log up to which its buttons are pressed
MaxOfflineTasks == 2
MaxLog == 4

\* the requests that the QR endpoint serves
MaxQRRequests == 2

(***************************************************************************)
(* State.  The parser, the route handlers, the scanner view and the        *)
(* offline manager are checked one at a time: each specification moves the *)
(* variables of one of them and leaves the others at rest.                 *)
(***************************************************************************)
VARIABLES
    \* the parser on its own: a scanned value, the parser's result and whether
    \* it has run
    qrData, parsed, parsePc,
    \* one request to a route handler: the handler, the request's parameters,
    \* where the handler stands, the outcome of authenticate.admin, the
    \* upstream queries issued and their results so far, and the response
    handler, request, rpc, authState, queries, results, response,
    \* the scanner view: the value of the scanner subscription, the view's
    \* state, the handlers that are waiting for a toast or for the search
    \* endpoint, and the search requests sent so far
    scannerData, showScanner, manualInput, searchType, orderInfo,
    searchResults, isLoading, error, scanCount, lastScannedData,
    showOrderDetails, showOfflineManager, showSearchResults, tasks, sent,
    \* the offline manager: its state while it is shown, its handlers that
    \* are waiting for a timer, the local storage of the device, and whether
    \* the sync button's disabled property keeps it from being pressed
    cachedOrders, syncStatus, isSyncing, syncLog, offlineTasks, storage,
    disabledWorks,
    \* the QR endpoint over several requests: the requests it has served with
    \* what it returned, and the time
    qrLog, clock,
    \* the QR generator view: its state, its generateQR calls that wait for
    \* the endpoint, its bulk generations that wait for their three calls,
    \* the notifications it has shown, and the presses so far
    qrSize, isGenerating, generatedQRs, genTasks, bulks, toasts, presses,
    \* the order actions view: its state, the order that the details view
    \* above it holds, the handlers that wait for their request, the last
    \* notification, and the handlers started so far
    isProcessing, refundAmount, refundReason, cancelReason, fulfillmentStatus,
    currentOrderInfo, actionTasks, actionToast, started,
    \* the performance monitor page: its metrics by label, its log, whether
    \* it monitors, the tests that wait for their request, and the tests
    \* started so far
    metrics, logs, isMonitoring, monitorTasks, tests

parseVars == <<qrData, parsed, parsePc>>
routeVars == <<handler, request, rpc, authState, queries, results, response>>
modalVars ==
    <<scannerData, showScanner, manualInput, searchType, orderInfo,
      searchResults, isLoading, error, scanCount, lastScannedData,
      showOrderDetails, showOfflineManager, showSearchResults, tasks, sent>>

offlineVars ==
    <<cachedOrders, syncStatus, isSyncing, syncLog, offlineTasks, storage,
      disabledWorks>>

qrVars == <<qrLog, clock>>
generatorVars ==
    <<qrSize, isGenerating, generatedQRs, genTasks, bulks, toasts, presses>>

actionVars ==
    <<isProcessing, refundAmount, refundReason, cancelReason,
      fulfillmentStatus, currentOrderInfo, actionTasks, actionToast, started>>
monitorVars == <<metrics, logs, isMonitoring, monitorTasks, tests>>
pageVars == <<actionVars, monitorVars>>

vars ==
    <<parseVars, routeVars, modalVars, offlineVars, qrVars, generatorVars,
      pageVars>>

\* what a specification of one part leaves alone
exceptParse == <<routeVars, modalVars, offlineVars, qrVars, generatorVars,
      pageVars>>
exceptRoutes == <<parseVars, modalVars, offlineVars, qrVars, generatorVars,
      pageVars>>
exceptModal == <<parseVars, routeVars, offlineVars, qrVars, generatorVars,
      pageVars>>
exceptOffline == <<parseVars, routeVars, modalVars, qrVars, generatorVars,
      pageVars>>
exceptQR == <<routeVars, modalVars, offlineVars, generatorVars,
      pageVars>>
exceptGenerator ==
    <<parseVars, routeVars, modalVars, offlineVars, qrVars, pageVars>>
exceptActions ==
    <<parseVars, routeVars, modalVars, offlineVars, qrVars, generatorVars,
      monitorVars>>
exceptMonitor ==
    <<parseVars, routeVars, modalVars, offlineVars, qrVars, generatorVars,
      actionVars>>

\* a parameter, a query or an order that is not there
Absent == <<"absent">>

\* the parts at rest
ParseIdle == qrData = <<>> /\ parsed = Absent /\ parsePc = "idle"

RouteIdle ==
    /\ handler = "none"
    /\ request = Absent
    /\ rpc = "idle"
    /\ authState = "none"
    /\ queries = <<>>
    /\ results = <<>>
    /\ response = Absent

\* the scanner view before it is shown
ModalIdle ==
    /\ scannerData = Absent
    /\ showScanner = FALSE
    /\ manualInput = <<>>
    /\ searchType = <<>>
    /\ orderInfo = 0
    /\ searchResults = <<>>
    /\ isLoading = FALSE
    /\ error = "null"
    /\ scanCount = 0
    /\ lastScannedData = Absent
    /\ showOrderDetails = FALSE
    /\ showOfflineManager = FALSE
    /\ showSearchResults = FALSE
    /\ tasks = <<>>
    /\ sent = <<>>

\* the keys under which the offline manager would keep its data
CACHE_KEY == "pos_qr_cached_orders"
SYNC_STATUS_KEY == "pos_qr_sync_status"
SYNC_LOG_KEY == "pos_qr_sync_log"

\* a time is null, the time of the last sync of the first mock order (half
\* an hour before the cache is loaded), or the time of a sync step
Time == [null |-> "null", mock |-> "30 minutes before loading",
         now |-> "now"]
NotSynced == "undefined"

\* the state the offline manager is constructed with
InitialSyncStatus ==
    [isOnline |-> TRUE, lastSync |-> Time.null, pendingSync |-> 0,
     totalCached |-> 0]

\* an item of the local storage: whether it is there, and its value
NoItem(empty) == [present |-> FALSE, value |-> empty]
Item(value) == [present |-> TRUE, value |-> value]

\* a local storage that holds nothing
EmptyStorage ==
    (CACHE_KEY :> NoItem(<<>>)) @@ (SYNC_STATUS_KEY :> NoItem(InitialSyncStatus))
        @@ (SYNC_LOG_KEY :> NoItem(<<>>))

\* the offline manager while it is not shown, on a device with nothing stored
OfflineIdle ==
    /\ cachedOrders = <<>>
    /\ syncStatus = InitialSyncStatus
    /\ isSyncing = FALSE
    /\ syncLog = <<>>
    /\ offlineTasks = <<>>
    /\ storage = EmptyStorage
    /\ disabledWorks = TRUE

\* the QR endpoint before its first request
QRIdle ==
    /\ qrLog = <<>>
    /\ clock = 1

\* the QR generator as it is constructed
GeneratorIdle ==
    /\ qrSize = <<"2", "0", "0">>
    /\ isGenerating = FALSE
    /\ generatedQRs = {}
    /\ genTasks = <<>>
    /\ bulks = <<>>
    /\ toasts = <<>>
    /\ presses = 0

\* the order actions view as it is constructed for an order that has no
\* fulfillment status; "none" is no notification
ActionsIdle ==
    /\ isProcessing = FALSE
    /\ refundAmount = ""
    /\ refundReason = ""
    /\ cancelReason = ""
    /\ fulfillmentStatus = ""
    /\ currentOrderInfo = "scanned"
    /\ actionTasks = <<>>
    /\ actionToast = "none"
    /\ started = 0

\* the metrics of a label, and whether the label is a key of metrics
Metric(present, total, success, errors, average, history, lastError) ==
    [present |-> present, totalRequests |-> total,
     successRequests |-> success, errorRequests |-> errors,
     averageResponseTime |-> average, responseTimeHistory |-> history,
     lastError |-> lastError]
ZeroMetric == Metric(TRUE, 0, 0, 0, 0, <<>>, "none")
NoMetric == Metric(FALSE, 0, 0, 0, 0, <<>>, "none")

\* the labels that the loader of the monitor page delivers with zero
\* metrics, and the labels of the test buttons
LoaderLabels ==
    {"basic API", "simple order API", "basic order API",
     "order list API (original)", "order search API"}
ButtonLabels ==
    {"basic API", "simple order API", "basic order API", "order list API",
     "order search API"}
IntervalLabels ==
    <<"basic API", "simple order API", "basic order API",
      "order search API">>
Labels == LoaderLabels \cup ButtonLabels

\* the performance monitor page as it is loaded
MonitorIdle ==
    /\ metrics = [l \in Labels |-> IF l \in LoaderLabels THEN ZeroMetric
                                   ELSE NoMetric]
    /\ logs = <<>>
    /\ isMonitoring = FALSE
    /\ monitorTasks = [l \in Labels |-> 0]
    /\ tests = 0

(***************************************************************************)
(* Characters and strings.                                                 *)
(***************************************************************************)
Digit == {"0", "1", "2", "3", "4", "5", "6", "7", "8", "9"}

\* \d of a JavaScript regular expression
IsDigit(c) == c \in Digit

\* /^\d+$/
AllDigits(s) == Len(s) > 0 /\ \A i \in 1..Len(s) : IsDigit(s[i])

\* String.prototype.startsWith, and a pattern found at position i
StartsAt(s, p, i) ==
    /\ i >= 1
    /\ i + Len(p) - 1 <= Len(s)
    /\ SubSeq(s, i, i + Len(p) - 1) = p

StartsWith(s, p) == StartsAt(s, p, 1)

\* String.prototype.includes
Includes(s, p) == \E i \in 1..(Len(s) + 1) : StartsAt(s, p, i)

\* the greedy \d+ at position i: the end of the run of digits that starts at i
RECURSIVE DigitRunEnd(_, _)
DigitRunEnd(s, i) ==
    IF i + 1 <= Len(s) /\ IsDigit(s[i + 1]) THEN DigitRunEnd(s, i + 1) ELSE i

\* String.prototype.trim, for the white space of the model (space and newline)
IsSpace(c) == c \in {" ", "\n"}

RECURSIVE TrimLeft(_)
TrimLeft(s) == IF Len(s) > 0 /\ IsSpace(s[1]) THEN TrimLeft(Tail(s)) ELSE s

RECURSIVE TrimRight(_)
TrimRight(s) ==
    IF Len(s) > 0 /\ IsSpace(s[Len(s)])
    THEN TrimRight(SubSeq(s, 1, Len(s) - 1))
    ELSE s

Trim(s) == TrimRight(TrimLeft(s))

(***************************************************************************)
(* JavaScript values: strings, numbers, booleans, null, undefined, objects *)
(* (a sequence of <<key, value>> members) and arrays.                      *)
(***************************************************************************)
Str(s) == [t |-> "str", s |-> s, m |-> <<>>]
Num(s) == [t |-> "num", s |-> s, m |-> <<>>]
Bool(s) == [t |-> "bool", s |-> s, m |-> <<>>]
Null == [t |-> "null", s |-> <<>>, m |-> <<>>]
Undefined == [t |-> "undef", s |-> <<>>, m |-> <<>>]
Obj(m) == [t |-> "obj", s |-> <<>>, m |-> m]
Arr(m) == [t |-> "arr", s |-> <<>>, m |-> m]

TRUE_TXT == <<"t", "r", "u", "e">>
FALSE_TXT == <<"f", "a", "l", "s", "e">>
NULL_TXT == <<"n", "u", "l", "l">>

\* ToBoolean, as || and if apply it
Truthy(v) ==
    CASE v.t = "str" -> v.s # <<>>
      [] v.t = "num" -> ~(v.s \in {<<"0">>, <<"-", "0">>})
      [] v.t = "bool" -> v.s = TRUE_TXT
      [] v.t \in {"null", "undef"} -> FALSE
      [] OTHER -> TRUE

\* a || b
OrElse(a, b) == IF Truthy(a) THEN a ELSE b

\* v.key for a value that is not null or undefined: the last member of that name
GetProp(v, key) ==
    IF v.t = "obj" /\ \E i \in 1..Len(v.m) : v.m[i][1] = key
    THEN v.m[CHOOSE i \in 1..Len(v.m) :
                /\ v.m[i][1] = key
                /\ \A j \in (i + 1)..Len(v.m) : v.m[j][1] # key][2]
    ELSE Undefined

(***************************************************************************)
(* JSON.parse, for JSON without escapes, fractions and exponents.          *)
(* A parser returns [ok, v, next]: the value and the position after it.    *)
(***************************************************************************)
Fail == [ok |-> FALSE, v |-> Undefined, next |-> 0]
Ok(v, next) == [ok |-> TRUE, v |-> v, next |-> next]

RECURSIVE SkipWs(_, _)
SkipWs(s, i) == IF i <= Len(s) /\ IsSpace(s[i]) THEN SkipWs(s, i + 1) ELSE i

\* a string: the characters up to the next quote; a backslash is not supported
ParseString(s, i) ==
    IF i <= Len(s) /\ s[i] = "\"" /\ \E j \in (i + 1)..Len(s) : s[j] = "\""
    THEN LET j == CHOOSE j \in (i + 1)..Len(s) :
                      /\ s[j] = "\""
                      /\ \A k \in (i + 1)..(j - 1) : s[k] # "\""
             body == SubSeq(s, i + 1, j - 1)
         IN  IF \E k \in 1..Len(body) : body[k] \in {"\\", "\n"}
             THEN Fail
             ELSE Ok(Str(body), j + 1)
    ELSE Fail

\* a number: -? (0 | [1-9][0-9]*)
ParseNumber(s, i) ==
    LET d == IF i <= Len(s) /\ s[i] = "-" THEN i + 1 ELSE i
    IN  IF d <= Len(s) /\ IsDigit(s[d])
        THEN LET e == IF s[d] = "0" THEN d ELSE DigitRunEnd(s, d)
             IN  Ok(Num(SubSeq(s, i, e)), e + 1)
        ELSE Fail

ParseLiteral(s, i) ==
    IF StartsAt(s, TRUE_TXT, i) THEN Ok(Bool(TRUE_TXT), i + 4)
    ELSE IF StartsAt(s, FALSE_TXT, i) THEN Ok(Bool(FALSE_TXT), i + 5)
    ELSE IF StartsAt(s, NULL_TXT, i) THEN Ok(Null, i + 4)
    ELSE Fail

RECURSIVE ParseValue(_, _)
RECURSIVE ParseMembers(_, _, _)
RECURSIVE ParseElements(_, _, _)

\* the members of an object from position i (after "{" or ","), acc parsed so far
ParseMembers(s, i, acc) ==
    LET k == ParseString(s, SkipWs(s, i))
    IN  IF ~k.ok THEN Fail
        ELSE LET c == SkipWs(s, k.next)
             IN  IF ~(c <= Len(s) /\ s[c] = ":") THEN Fail
                 ELSE LET v == ParseValue(s, SkipWs(s, c + 1))
                      IN  IF ~v.ok THEN Fail
                          ELSE LET e == SkipWs(s, v.next)
                                   acc2 == Append(acc, <<k.v.s, v.v>>)
                               IN  IF e <= Len(s) /\ s[e] = ","
                                   THEN ParseMembers(s, e + 1, acc2)
                                   ELSE IF e <= Len(s) /\ s[e] = "}"
                                   THEN Ok(Obj(acc2), e + 1)
                                   ELSE Fail

\* the elements of an array from position i (after "[" or ",")
ParseElements(s, i, acc) ==
    LET v == ParseValue(s, SkipWs(s, i))
    IN  IF ~v.ok THEN Fail
        ELSE LET e == SkipWs(s, v.next)
                 acc2 == Append(acc, <<<<>>, v.v>>)
             IN  IF e <= Len(s) /\ s[e] = ","
                 THEN ParseElements(s, e + 1, acc2)
                 ELSE IF e <= Len(s) /\ s[e] = "]"
                 THEN Ok(Arr(acc2), e + 1)
                 ELSE Fail

ParseValue(s, i) ==
    IF i > Len(s) THEN Fail
    ELSE IF s[i] = "{"
    THEN LET j == SkipWs(s, i + 1)
         IN  IF j <= Len(s) /\ s[j] = "}"
             THEN Ok(Obj(<<>>), j + 1)
             ELSE ParseMembers(s, i + 1, <<>>)
    ELSE IF s[i] = "["
    THEN LET j == SkipWs(s, i + 1)
         IN  IF j <= Len(s) /\ s[j] = "]"
             THEN Ok(Arr(<<>>), j + 1)
             ELSE ParseElements(s, i + 1, <<>>)
    ELSE IF s[i] = "\"" THEN ParseString(s, i)
    ELSE IF s[i] = "-" \/ IsDigit(s[i]) THEN ParseNumber(s, i)
    ELSE ParseLiteral(s, i)

\* JSON.parse(text): ok is FALSE where it throws a SyntaxError
JSONParse(s) ==
    LET r == ParseValue(s, SkipWs(s, 1))
    IN  IF r.ok /\ SkipWs(s, r.next) = Len(s) + 1 THEN r ELSE Fail

\* JSON.stringify of an object whose members are strings and numbers; sep is
\* the white space written after ":" and "," (none for JSON.stringify itself)
Quote(s) == <<"\"">> \o s \o <<"\"">>

StringifyValue(v) ==
    IF v.t = "str" THEN Quote(v.s) ELSE IF v.t = "null" THEN NULL_TXT ELSE v.s

RECURSIVE StringifyMembers(_, _)
StringifyMembers(m, sep) ==
    IF m = <<>> THEN <<>>
    ELSE Quote(m[1][1]) \o <<":">> \o sep \o StringifyValue(m[1][2])
         \o (IF Len(m) > 1 THEN <<",">> \o sep ELSE <<>>)
         \o StringifyMembers(Tail(m), sep)

JSONStringify(m) == <<"{">> \o StringifyMembers(m, <<>>) \o <<"}">>

(***************************************************************************)
(* parseQRCode (Modal.tsx): five matchers tried in order.  A matcher       *)
(* returns [hit, v]: whether it matched and the value it returns.          *)
(***************************************************************************)
ORDERS == <<"/", "o", "r", "d", "e", "r", "s", "/">>
GID == <<"g", "i", "d", ":", "/", "/", "s", "h", "o", "p", "i", "f", "y", "/",
         "O", "r", "d", "e", "r", "/">>
ORDER_ID_KEY == <<"o", "r", "d", "e", "r", "I", "d">>
ORDER_ID_SNAKE_KEY == <<"o", "r", "d", "e", "r", "_", "i", "d">>
ID_KEY == <<"i", "d">>

Hit(v) == [hit |-> TRUE, v |-> v]
Miss == [hit |-> FALSE, v |-> Null]

\* qrData.match(/^#(\d+)$/)
MatchHash(s) ==
    IF Len(s) >= 2 /\ s[1] = "#" /\ AllDigits(Tail(s))
    THEN Hit(Str(Tail(s)))
    ELSE Miss

\* qrData.match(/^\d+$/), returning qrData
MatchNumber(s) == IF AllDigits(s) THEN Hit(Str(s)) ELSE Miss

\* qrData.match(/<p>(\d+)/) from position i on: the leftmost place where p is
\* followed by a digit, and the whole run of digits there
RECURSIVE SearchCapture(_, _, _)
SearchCapture(s, p, i) ==
    IF i + Len(p) > Len(s) THEN Miss
    ELSE IF StartsAt(s, p, i) /\ IsDigit(s[i + Len(p)])
    THEN Hit(Str(SubSeq(s, i + Len(p), DigitRunEnd(s, i + Len(p)))))
    ELSE SearchCapture(s, p, i + 1)

\* qrData.match(/\/orders\/(\d+)/)
MatchUrl(s) == SearchCapture(s, ORDERS, 1)

\* qrData.match(/gid:\/\/shopify\/Order\/(\d+)/)
MatchGid(s) == SearchCapture(s, GID, 1)

\* try { JSON.parse ... jsonData.orderId || jsonData.order_id || jsonData.id }
\* catch: the SyntaxError of JSON.parse and the TypeError of null.orderId
MatchJson(s) ==
    LET r == JSONParse(s)
    IN  IF ~r.ok \/ r.v.t = "null" THEN Miss
        ELSE LET v == OrElse(GetProp(r.v, ORDER_ID_KEY),
                             OrElse(GetProp(r.v, ORDER_ID_SNAKE_KEY),
                                    GetProp(r.v, ID_KEY)))
             IN  IF Truthy(v) THEN Hit(v) ELSE Miss

\* the first matcher of ms that matches s
RECURSIVE FirstMatch(_, _)
FirstMatch(s, ms) ==
    IF ms = <<>> THEN Miss
    ELSE LET r == CASE ms[1] = "hash" -> MatchHash(s)
                    [] ms[1] = "number" -> MatchNumber(s)
                    [] ms[1] = "url" -> MatchUrl(s)
                    [] ms[1] = "gid" -> MatchGid(s)
                    [] ms[1] = "json" -> MatchJson(s)
         IN  IF r.hit THEN r ELSE FirstMatch(s, Tail(ms))

\* a parser that tries the GraphQL id before the URL
parseQRCodeGidFirst(s) ==
    FirstMatch(s, <<"hash", "number", "gid", "url", "json">>).v

\* a parser that gives back the scanned value when no format matches
parseQRCodeOrRaw(s) ==
    LET r == FirstMatch(s, <<"hash", "number", "url", "gid", "json">>)
    IN  IF r.hit THEN r.v ELSE Str(s)

\* parseQRCode: hash, number, URL, GraphQL id, JSON; null when none matches
parseQRCode(s) == FirstMatch(s, <<"hash", "number", "url", "gid", "json">>).v

(***************************************************************************)
(* The values a scanner can deliver to the parser.                         *)
(***************************************************************************)
DigitChars == {"0", "1", "7"}
DigitStrs == UNION {[1..n -> DigitChars] : n \in 1..MaxDigits}

HOST == <<"h", "t", "t", "p", "s", ":", "/", "/", "s">>
\* the URL form of DEVELOPMENT_DOCUMENTATION.md: order_id=<digits>
ORDER_ID_PARAM == <<"o", "r", "d", "e", "r", "_", "i", "d", "=">>

Lead ==
    {<<>>, <<"#">>, <<"x">>, ORDERS, GID, HOST \o ORDERS, <<"#">> \o GID,
     <<"/", "O", "r", "d", "e", "r", "s", "/">>}

Trail ==
    {<<>>, <<"x">>, <<"\n">>, ORDERS \o <<"3">>, <<"/">> \o GID \o <<"4">>,
     ORDERS \o <<"x">>}

PatternInputs == {a \o d \o b : a \in Lead, d \in DigitStrs \cup {<<>>}, b \in Trail}

\* order_id=<digits>, bare and as the query of a URL
DocUrlInputs ==
    {a \o ORDER_ID_PARAM \o d : a \in {<<>>, HOST \o <<"/", "?">>}, d \in DigitStrs}

JsonMemberVals ==
    {Undefined, Str(<<>>), Str(<<"1", "2">>), Num(<<"0">>), Num(<<"7">>), Null,
     Bool(TRUE_TXT), Bool(FALSE_TXT)}

\* the members orderId, order_id and id that are present, in this order
Members(a, b, c) ==
    (IF a = Undefined THEN <<>> ELSE <<<<ORDER_ID_KEY, a>>>>)
    \o (IF b = Undefined THEN <<>> ELSE <<<<ORDER_ID_SNAKE_KEY, b>>>>)
    \o (IF c = Undefined THEN <<>> ELSE <<<<ID_KEY, c>>>>)

JsonInputs ==
    {<<"{">> \o StringifyMembers(Members(a, b, c), sep) \o <<"}">> :
        a \in JsonMemberVals, b \in JsonMemberVals, c \in JsonMemberVals,
        sep \in {<<>>, <<" ">>}}

OddInputs ==
    {NULL_TXT, TRUE_TXT, <<"-", "5">>, Quote(<<"1", "2">>), <<"[", "1", "]">>,
     <<"{">> \o Quote(ID_KEY) \o <<":", "{", "}", "}">>,
     <<"{">> \o Quote(ID_KEY) \o <<":", "[", "1", ",", "2", "]", "}">>,
     <<"{">> \o Quote(ID_KEY) \o <<":">> \o Quote(<<"7">>),
     <<"{">> \o Quote(ID_KEY) \o <<":">> \o Quote(<<"7">>) \o <<"}", "x">>,
     <<"{">> \o Quote(ID_KEY) \o <<":">> \o Quote(<<"7">>) \o <<",">>
         \o Quote(ID_KEY) \o <<":">> \o Quote(<<"1">>) \o <<"}">>,
     <<"{">> \o Quote(ORDER_ID_KEY) \o <<":">> \o Quote(GID \o <<"1", "2">>) \o <<"}">>,
     <<"{">> \o Quote(ID_KEY) \o <<":", "0", "1", "}">>}

QRInputs == PatternInputs \cup DocUrlInputs \cup JsonInputs \cup OddInputs

(***************************************************************************)
(* The parser applied to every scanner value.                              *)
(***************************************************************************)
ParseInit ==
    /\ qrData \in QRInputs
    /\ parsed = Undefined
    /\ parsePc = "scanned"
    /\ RouteIdle
    /\ ModalIdle
    /\ OfflineIdle
    /\ QRIdle
    /\ GeneratorIdle
    /\ ActionsIdle
    /\ MonitorIdle

ParseStep ==
    /\ parsePc = "scanned"
    /\ parsed' = parseQRCode(qrData)
    /\ parsePc' = "parsed"
    /\ UNCHANGED <<qrData, exceptParse>>

ParseNext == ParseStep

SpecParse == ParseInit /\ [][ParseNext]_vars

(***************************************************************************)
(* What the claims say of the parser, stated without its matchers.         *)
(***************************************************************************)
\* s is "#" followed by digits only
HashForm(s) == Len(s) >= 2 /\ s[1] = "#" /\ \A i \in 2..Len(s) : s[i] \in Digit

\* p stands at position i of s and a digit follows it
FollowedByDigit(s, p, i) ==
    /\ StartsAt(s, p, i)
    /\ i + Len(p) <= Len(s)
    /\ s[i + Len(p)] \in Digit

HasOrderAfter(s, p) == \E i \in 1..Len(s) : FollowedByDigit(s, p, i)

\* the digits of the order id: all the digits that follow the first p
OrderDigitsAfter(s, p) ==
    LET i == CHOOSE i \in 1..Len(s) :
                 /\ FollowedByDigit(s, p, i)
                 /\ \A k \in 1..(i - 1) : ~FollowedByDigit(s, p, k)
        b == i + Len(p)
        e == CHOOSE e \in b..Len(s) :
                 /\ \A k \in b..e : s[k] \in Digit
                 /\ (e = Len(s) \/ s[e + 1] \notin Digit)
    IN  SubSeq(s, b, e)

\* orderId, then order_id, then id of a JSON object; null for anything else
JsonPayloadId(s) ==
    LET r == JSONParse(s)
        a == GetProp(r.v, ORDER_ID_KEY)
        b == GetProp(r.v, ORDER_ID_SNAKE_KEY)
        c == GetProp(r.v, ID_KEY)
    IN  IF ~r.ok \/ r.v.t # "obj" THEN Null
        ELSE IF Truthy(a) THEN a
        ELSE IF Truthy(b) THEN b
        ELSE IF Truthy(c) THEN c
        ELSE Null

C2_DocumentedUrlForm ==
    (parsePc = "parsed" /\ qrData \in DocUrlInputs) =>
        parsed = Str(OrderDigitsAfter(qrData, ORDER_ID_PARAM))

(***************************************************************************)
(* Numbers of the route handlers: parseInt and Math.min, with NaN.         *)
(***************************************************************************)
NaN == [nan |-> TRUE, n |-> 0]
Int32(n) == [nan |-> FALSE, n |-> n]

DigitValue(c) ==
    CASE c = "0" -> 0 [] c = "1" -> 1 [] c = "2" -> 2 [] c = "3" -> 3
      [] c = "4" -> 4 [] c = "5" -> 5 [] c = "6" -> 6 [] c = "7" -> 7
      [] c = "8" -> 8 [] c = "9" -> 9

RECURSIVE Decimal(_)
Decimal(s) ==
    IF s = <<>> THEN 0
    ELSE 10 * Decimal(SubSeq(s, 1, Len(s) - 1)) + DigitValue(s[Len(s)])

\* parseInt(s): leading white space, a sign, then the digits up to the first
\* other character; NaN when no digit is there
ParseInt(s) ==
    LET u == TrimLeft(s)
        signed == Len(u) > 0 /\ u[1] \in {"-", "+"}
        d == IF signed THEN Tail(u) ELSE u
    IN  IF Len(d) > 0 /\ IsDigit(d[1])
        THEN LET v == Decimal(SubSeq(d, 1, DigitRunEnd(d, 1)))
             IN  Int32(IF signed /\ u[1] = "-" THEN 0 - v ELSE v)
        ELSE NaN

\* Math.min(a, cap)
MathMin(a, cap) == IF a.nan THEN NaN ELSE Int32(IF a.n < cap THEN a.n ELSE cap)

(***************************************************************************)
(* The route handlers.  A handler is a sequence of steps between its       *)
(* awaits; a step ends with a response or with an upstream query.          *)
(***************************************************************************)
GID_PREFIX == <<"g", "i", "d", ":", "/", "/">>

\* the search types
SearchType ==
    [ id |-> <<"i", "d">>,
      name |-> <<"n", "a", "m", "e">>,
      email |-> <<"e", "m", "a", "i", "l">>,
      customer |-> <<"c", "u", "s", "t", "o", "m", "e", "r">>,
      phone |-> <<"p", "h", "o", "n", "e">>,
      auto |-> <<"a", "u", "t", "o">> ]

\* the pieces of the search conditions
SearchQ ==
    [ name |-> <<"n", "a", "m", "e", ":">>,
      nameHash |-> <<"n", "a", "m", "e", ":", "#">>,
      nameStar |-> <<"n", "a", "m", "e", ":", "*">>,
      email |-> <<"e", "m", "a", "i", "l", ":">>,
      firstName |-> <<"c", "u", "s", "t", "o", "m", "e", "r", ".", "f",
                      "i", "r", "s", "t", "_", "n", "a", "m", "e", ":",
                      "*">>,
      orLastName |-> <<"*", " ", "O", "R", " ", "c", "u", "s", "t", "o",
                       "m", "e", "r", ".", "l", "a", "s", "t", "_", "n",
                       "a", "m", "e", ":", "*">>,
      orCustomerEmail |-> <<"*", " ", "O", "R", " ", "c", "u", "s", "t",
                            "o", "m", "e", "r", ".", "e", "m", "a", "i",
                            "l", ":", "*">>,
      orFirstName |-> <<"*", " ", "O", "R", " ", "c", "u", "s", "t", "o",
                        "m", "e", "r", ".", "f", "i", "r", "s", "t", "_",
                        "n", "a", "m", "e", ":", "*">>,
      phone |-> <<"p", "h", "o", "n", "e", ":", "*">> ]

\* the filters of the order list
ListFilter ==
    [ all |-> <<"a", "l", "l">>,
      today |-> <<"t", "o", "d", "a", "y">>,
      week |-> <<"w", "e", "e", "k">>,
      pending |-> <<"p", "e", "n", "d", "i", "n", "g">>,
      fulfilled |-> <<"f", "u", "l", "f", "i", "l", "l", "e", "d">>,
      paid |-> <<"p", "a", "i", "d">>,
      unpaid |-> <<"u", "n", "p", "a", "i", "d">> ]

\* the search conditions of the filters
ListQ ==
    [ createdFrom |-> <<"c", "r", "e", "a", "t", "e", "d", "_", "a", "t",
                        ":", ">", "=">>,
      unfulfilled |-> <<"f", "u", "l", "f", "i", "l", "l", "m", "e", "n",
                        "t", "_", "s", "t", "a", "t", "u", "s", ":", "u",
                        "n", "f", "u", "l", "f", "i", "l", "l", "e", "d">>,
      fulfilled |-> <<"f", "u", "l", "f", "i", "l", "l", "m", "e", "n",
                      "t", "_", "s", "t", "a", "t", "u", "s", ":", "f",
                      "u", "l", "f", "i", "l", "l", "e", "d">>,
      paid |-> <<"f", "i", "n", "a", "n", "c", "i", "a", "l", "_", "s",
                 "t", "a", "t", "u", "s", ":", "p", "a", "i", "d">>,
      unpaid |-> <<"f", "i", "n", "a", "n", "c", "i", "a", "l", "_", "s",
                   "t", "a", "t", "u", "s", ":", "p", "e", "n", "d", "i",
                   "n", "g", " ", "O", "R", " ", "f", "i", "n", "a", "n",
                   "c", "i", "a", "l", "_", "s", "t", "a", "t", "u", "s",
                   ":", "a", "u", "t", "h", "o", "r", "i", "z", "e", "d">> ]

MODE_BASIC == <<"b", "a", "s", "i", "c">>
TODAY == <<"2", "0", "2", "6", "-", "1", "1", "-", "0", "3">>
WEEK_AGO == <<"2", "0", "2", "6", "-", "1", "0", "-", "2", "7">>

\* url.searchParams.get(name) || fallback, and params.id
Param(x, fallback) == IF x = Absent \/ x = <<>> THEN fallback ELSE x

NoQuery == [op |-> "none", id |-> Absent, query |-> Absent, first |-> NaN]
NoBody == [kind |-> "none", success |-> "absent", order |-> 0, orders |-> <<>>,
           total |-> 0 - 1, text |-> Absent, active |-> {}]

\* the body of a response: what it is, its success field ("true", "false" or
\* "absent"), the order or the orders it carries, its totalFound (-1: none)
\* and, for a response that is a text, the text; for the order list, the
\* keys of filters.available that are marked active
Body(kind, success, order, orders, total) ==
    [kind |-> kind, success |-> success, order |-> order, orders |-> orders,
     total |-> total, text |-> Absent, active |-> {}]

ErrorBody(kind) == Body(kind, "absent", 0, <<>>, 0 - 1)
FailureBody(kind) == Body(kind, "false", 0, <<>>, 0 - 1)
SuccessBody(kind) == Body(kind, "true", 0, <<>>, 0 - 1)
TextBody(kind, text) == [Body(kind, "absent", 0, <<>>, 0 - 1) EXCEPT !.text = text]

Respond(status, body) ==
    [do |-> "respond", status |-> status, body |-> body, q |-> NoQuery]
Query(q) == [do |-> "query", status |-> 0, body |-> NoBody, q |-> q]

GetOrderQuery(op, id) == [op |-> op, id |-> id, query |-> Absent, first |-> NaN]
OrdersQuery(op, query, first) ==
    [op |-> op, id |-> Absent, query |-> query, first |-> first]
PlainQuery(op) == [op |-> op, id |-> Absent, query |-> Absent, first |-> NaN]

\* orderId.startsWith('gid://') ? orderId : `gid://shopify/Order/${orderId}`
GqlOrderId(id) == IF StartsWith(id, GID_PREFIX) THEN id ELSE GID \o id

----------------------------------------------------------------------------
\* /api/orders/$id (api.orders.$id.tsx and its extended version)

\* the order id is missing: 400; else the order is queried by its GraphQL id
OrderByIdAfterAuth(rq) ==
    IF rq.id = Absent \/ rq.id = <<>>
    THEN Respond(400, ErrorBody("missing-id"))
    ELSE Query(GetOrderQuery("getOrder", GqlOrderId(rq.id)))

\* the extended version: the same statuses, with a success field in the body
WithSuccess(step) ==
    [step EXCEPT !.body.success = IF step.status = 200 THEN "true" ELSE "false"]

\* a handler that looks at the order before it looks at the errors
OrderByIdResultOrderFirst(res) ==
    IF res.thrown THEN Respond(500, ErrorBody("exception"))
    ELSE IF res.order # 0 THEN Respond(200, Body("order", "absent", res.order, <<>>, 0 - 1))
    ELSE IF res.errors THEN Respond(400, ErrorBody("graphql-errors"))
    ELSE Respond(404, ErrorBody("not-found"))

\* result.errors: 400; no result.data.order: 404; else the order
OrderByIdResult(res) ==
    IF res.thrown THEN Respond(500, ErrorBody("exception"))
    ELSE IF res.errors THEN Respond(400, ErrorBody("graphql-errors"))
    ELSE IF res.order = 0 THEN Respond(404, ErrorBody("not-found"))
    ELSE Respond(200, Body("order", "absent", res.order, <<>>, 0 - 1))

----------------------------------------------------------------------------
\* /api/orders/search (the order search loader of api.graphql-test.tsx)

\* a handler that looks up by id whenever the term is digits only
SearchByIdAnyType(term, type) == type = SearchType.id \/ AllDigits(term)

\* the lookup by id: type=id, or type=auto with a term of digits only
SearchById(term, type) ==
    type = SearchType.id \/ (type = SearchType.auto /\ AllDigits(term))

\* the query string of the general search
SearchQueryString(term, type) ==
    IF type = SearchType.name \/ type = SearchType.auto
    THEN IF StartsWith(term, <<"#">>) THEN SearchQ.name \o term
         ELSE IF AllDigits(term) THEN SearchQ.nameHash \o term
         ELSE SearchQ.nameStar \o term \o <<"*">>
    ELSE IF type = SearchType.email THEN SearchQ.email \o term
    ELSE IF type = SearchType.customer
    THEN SearchQ.firstName \o term \o SearchQ.orLastName \o term
             \o SearchQ.orCustomerEmail \o term \o <<"*">>
    ELSE IF type = SearchType.phone THEN SearchQ.phone \o term \o <<"*">>
    ELSE IF Includes(term, <<"@">>) THEN SearchQ.email \o term
    ELSE IF StartsWith(term, <<"#">>) THEN SearchQ.name \o term
    ELSE IF AllDigits(term) THEN SearchQ.nameHash \o term
    ELSE SearchQ.nameStar \o term \o SearchQ.orFirstName \o term
             \o SearchQ.orLastName \o term \o SearchQ.orCustomerEmail
             \o term \o <<"*">>

\* a page size that is passed on as it was asked for
SearchLimitUncapped(rq) == ParseInt(Param(rq.limit, <<"1", "0">>))

\* Math.min(parseInt(limit || '10'), 50)
SearchLimit(rq) == MathMin(ParseInt(Param(rq.limit, <<"1", "0">>)), 50)

\* the lookup that the term and the type select
SearchLookup(rq) ==
    LET term == Param(rq.q, <<>>)
        type == Param(rq.type, SearchType.auto)
    IN  IF SearchById(term, type)
        THEN Query(GetOrderQuery("getOrderById", GqlOrderId(term)))
        ELSE Query(OrdersQuery("searchOrders", SearchQueryString(term, type),
                               SearchLimit(rq)))

\* a handler that does not look at the term before it searches
OrderSearchUnvalidated(rq) == SearchLookup(rq)

\* a term that is empty after trim: 400; else the lookup
OrderSearchAfterAuth(rq) ==
    IF Trim(Param(rq.q, <<>>)) = <<>>
    THEN Respond(400, ErrorBody("missing-query"))
    ELSE SearchLookup(rq)

\* the orders of a result: the one order of a lookup by id, the nodes of the
\* edges of a search
SearchResults(q, res) ==
    IF q.op = "getOrderById"
    THEN IF res.order # 0 THEN <<res.order>> ELSE <<>>
    ELSE IF res.hasEdges THEN res.edges ELSE <<>>

\* a handler that looks for orders before it looks for errors
OrderSearchResultErrorsLast(q, res) ==
    LET found == SearchResults(q, res)
    IN  IF res.thrown THEN Respond(500, ErrorBody("exception"))
        ELSE IF Len(found) > 0
        THEN Respond(200, Body("found", "true", 0, found, Len(found)))
        ELSE IF res.errors THEN Respond(400, ErrorBody("graphql-errors"))
        ELSE Respond(200, Body("none-found", "absent", 0, <<>>, 0))

\* result.errors: 400; no orders: 200 with totalFound 0 and no success field;
\* else 200 with the orders
OrderSearchResult(q, res) ==
    LET found == SearchResults(q, res)
    IN  IF res.thrown THEN Respond(500, ErrorBody("exception"))
        ELSE IF res.errors THEN Respond(400, ErrorBody("graphql-errors"))
        ELSE IF Len(found) = 0
        THEN Respond(200, Body("none-found", "absent", 0, <<>>, 0))
        ELSE Respond(200, Body("found", "true", 0, found, Len(found)))

----------------------------------------------------------------------------
\* POST /api/graphql-test (the action) and its GET (the usage loader)

\* no query in the form: 400; else the query is sent as it is
GraphqlActionAfterAuth(rq) ==
    IF rq.query = Absent \/ rq.query = <<>>
    THEN Respond(400, FailureBody("missing-query"))
    ELSE Query([op |-> "custom", id |-> Absent, query |-> rq.query,
                first |-> NaN])

\* 200 whatever came back, success: !result.errors
GraphqlActionResult(res) ==
    IF res.thrown THEN Respond(500, FailureBody("exception"))
    ELSE Respond(200, Body("custom", IF res.errors THEN "false" ELSE "true",
                           0, <<>>, 0 - 1))

\* the usage notes, to whoever asks
GraphqlUsage == Respond(200, Body("usage", "absent", 0, <<>>, 0 - 1))

----------------------------------------------------------------------------
\* /api/orders/list

\* Math.min(parseInt(limit || '20'), 100)
ListLimit(rq) == MathMin(ParseInt(Param(rq.limit, <<"2", "0">>)), 100)

\* the search condition of a filter; a filter that is not one of the six is
\* the condition itself
ListQueryString(filter) ==
    IF filter = <<>> THEN <<>>
    ELSE IF filter = ListFilter.today THEN ListQ.createdFrom \o TODAY
    ELSE IF filter = ListFilter.week THEN ListQ.createdFrom \o WEEK_AGO
    ELSE IF filter = ListFilter.pending THEN ListQ.unfulfilled
    ELSE IF filter = ListFilter.fulfilled THEN ListQ.fulfilled
    ELSE IF filter = ListFilter.paid THEN ListQ.paid
    ELSE IF filter = ListFilter.unpaid THEN ListQ.unpaid
    ELSE filter

\* query: query || undefined
OrderListAfterAuth(rq) ==
    Query(OrdersQuery("listOrders",
                      Param(ListQueryString(Param(rq.filter, <<>>)), Absent),
                      ListLimit(rq)))

\* filters.available: 'all' is active when the filter is empty, each other
\* key when the filter is that key
AvailableFilters ==
    <<ListFilter.all, ListFilter.today, ListFilter.week, ListFilter.pending,
      ListFilter.fulfilled, ListFilter.paid, ListFilter.unpaid>>

ActiveFilters(filter) ==
    {AvailableFilters[i] : i \in
        {j \in 1..Len(AvailableFilters) :
            IF AvailableFilters[j] = ListFilter.all THEN filter = <<>>
            ELSE filter = AvailableFilters[j]}}

\* result.errors: 400; no result.data.orders: 500; else the orders
OrderListResult(rq, res) ==
    IF res.thrown THEN Respond(500, FailureBody("exception"))
    ELSE IF res.errors THEN Respond(400, FailureBody("graphql-errors"))
    ELSE IF ~res.hasEdges THEN Respond(500, FailureBody("no-orders"))
    ELSE Respond(200,
            [Body("orders", "true", 0, res.edges, 0 - 1) EXCEPT
                !.active = ActiveFilters(Param(rq.filter, <<>>))])

----------------------------------------------------------------------------
\* /api/orders/simple-list

\* Math.min(parseInt(limit || '5'), 10)
SimpleListLimit(rq) == MathMin(ParseInt(Param(rq.limit, <<"5">>)), 10)

SimpleListAfterAuth(rq) ==
    Query(OrdersQuery(IF rq.mode = MODE_BASIC THEN "basicOrders"
                      ELSE "simpleOrders",
                      Absent, SimpleListLimit(rq)))

\* an upstream answer that is not ok is passed on with its status; then
\* result.errors: 400; no edges: 404; else the orders
SimpleListResult(res) ==
    IF res.thrown THEN Respond(500, FailureBody("exception"))
    ELSE IF ~res.httpOk THEN Respond(res.status, FailureBody("http-error"))
    ELSE IF res.errors THEN Respond(400, FailureBody("graphql-errors"))
    ELSE IF ~res.hasEdges THEN Respond(404, FailureBody("no-orders"))
    ELSE Respond(200, Body("orders", "true", 0, res.edges, 0 - 1))

----------------------------------------------------------------------------
\* /api/debug, /api/test-auth and the access test: queries about the shop

DebugAfterAuth == Query(PlainQuery("debugShop"))

\* result.errors: 400; the shop and the orders are then read from
\* result.data, which throws when there is none
DebugResult(res) ==
    IF res.thrown THEN Respond(500, FailureBody("exception"))
    ELSE IF res.errors THEN Respond(400, FailureBody("graphql-errors"))
    ELSE IF ~res.hasData THEN Respond(500, FailureBody("exception"))
    ELSE Respond(200, SuccessBody("debug"))

TestAuthAfterAuth == Query(PlainQuery("basicShop"))

\* result.errors: 400; else 200
TestAuthResult(res) ==
    IF res.thrown THEN Respond(500, FailureBody("exception"))
    ELSE IF res.errors THEN Respond(400, FailureBody("graphql-errors"))
    ELSE Respond(200, SuccessBody("auth-test"))

\* the four queries of the access test, in their order
AccessTestQueries == <<"basicShop", "appInfo", "customers", "minimalOrders">>

AccessTestAfterAuth == Query(PlainQuery(AccessTestQueries[1]))

\* each query has a catch of its own: whatever the n results are, the next
\* query follows, and after the last one the answer is 200
AccessTestResult(n) ==
    IF n < Len(AccessTestQueries)
    THEN Query(PlainQuery(AccessTestQueries[n + 1]))
    ELSE Respond(200, SuccessBody("access-test"))

----------------------------------------------------------------------------
\* /api/orders/$id/qrcode

\* the formats of the QR code data
QRFormat ==
    [ simple |-> <<"s", "i", "m", "p", "l", "e">>,
      json |-> <<"j", "s", "o", "n">>,
      url |-> <<"u", "r", "l">> ]

\* the fixed texts of the QR code data
QRText ==
    [ adminOrdersUrl |-> <<"h", "t", "t", "p", "s", ":", "/", "/", "a",
                           "d", "m", "i", "n", ".", "s", "h", "o", "p",
                           "i", "f", "y", ".", "c", "o", "m", "/", "s",
                           "t", "o", "r", "e", "/", "y", "o", "u", "r",
                           "-", "s", "t", "o", "r", "e", "/", "o", "r",
                           "d", "e", "r", "s", "/">>,
      typeKey |-> <<"t", "y", "p", "e">>,
      shopifyOrder |-> <<"s", "h", "o", "p", "i", "f", "y", "_", "o", "r",
                         "d", "e", "r">>,
      timestampKey |-> <<"t", "i", "m", "e", "s", "t", "a", "m", "p">> ]

NOW ==
    <<"2", "0", "2", "6", "-", "1", "1", "-", "0", "3", "T", "0", "0", ":",
      "0", "0", ":", "0", "0", ".", "0", "0", "0", "Z">>

\* the data of the QR code in the three formats, at a time
QRCodeDataAt(orderId, format, now) ==
    IF format = QRFormat.json
    THEN JSONStringify(<< <<ORDER_ID_KEY, Str(orderId)>>,
                          <<QRText.typeKey, Str(QRText.shopifyOrder)>>,
                          <<QRText.timestampKey, Str(now)>> >>)
    ELSE IF format = QRFormat.url THEN QRText.adminOrdersUrl \o orderId
    ELSE <<"#">> \o orderId

LATER ==
    <<"2", "0", "2", "6", "-", "1", "1", "-", "0", "3", "T", "0", "0", ":",
      "0", "0", ":", "0", "1", ".", "0", "0", "0", "Z">>

\* the URL form of the documentation in place of the admin URL
QRCodeDataDocUrl(orderId, format) ==
    IF format = QRFormat.url
    THEN HOST \o <<"/", "?">> \o ORDER_ID_PARAM \o orderId
    ELSE QRCodeDataAt(orderId, format, NOW)

QRCodeData(orderId, format) == QRCodeDataAt(orderId, format, NOW)

\* no id: 400; else the picture of the data, with no upstream query
QRCodeAfterAuth(rq) ==
    IF rq.id = Absent \/ rq.id = <<>>
    THEN Respond(400, ErrorBody("missing-id"))
    ELSE Respond(200, TextBody("svg", QRCodeData(rq.id, rq.format)))

----------------------------------------------------------------------------
\* the picture of the QR endpoint: generateQRCodeSVG and simpleHash

\* the characters with the codes 32 to 126 (the backslash and the backtick by their names)
ASCII ==
    <<" ", "!", "\"", "#", "$", "%", "&", "'", "(", ")", "*", "+",
      ",", "-", ".", "/", "0", "1", "2", "3", "4", "5", "6", "7",
      "8", "9", ":", ";", "<", "=", ">", "?", "@", "A", "B", "C",
      "D", "E", "F", "G", "H", "I", "J", "K", "L", "M", "N", "O",
      "P", "Q", "R", "S", "T", "U", "V", "W", "X", "Y", "Z", "[",
      "backslash", "]", "^", "_", "backtick", "a", "b", "c", "d", "e", "f", "g",
      "h", "i", "j", "k", "l", "m", "n", "o", "p", "q", "r", "s",
      "t", "u", "v", "w", "x", "y", "z", "{", "|", "}", "~">>

\* String.prototype.charCodeAt, for the characters of the table
CharCode ==
    [c \in {ASCII[i] : i \in 1..Len(ASCII)} |->
        31 + CHOOSE i \in 1..Len(ASCII) : ASCII[i] = c]

\* String(n) for n >= 0
RECURSIVE NumText(_)
NumText(n) ==
    IF n < 10 THEN <<ASCII[17 + n]>>
    ELSE NumText(n \div 10) \o <<ASCII[17 + (n % 10)]>>

\* a 32-bit integer in two's complement, as its two halves of 16 bits
HALF == 65536
Word(hi, lo) == [hi |-> hi, lo |-> lo]

\* hash << 5
ShiftLeft5(w) ==
    Word((w.hi * 32 + (w.lo * 32) \div HALF) % HALF, (w.lo * 32) % HALF)

\* a - b and a + c, each cut to 32 bits as hash & hash cuts it
Minus(a, b) ==
    LET borrow == IF a.lo < b.lo THEN 1 ELSE 0
    IN  Word((a.hi - b.hi - borrow + 2 * HALF) % HALF,
             (a.lo - b.lo + HALF) % HALF)
Plus(a, c) == Word((a.hi + (a.lo + c) \div HALF) % HALF, (a.lo + c) % HALF)

\* Math.abs, which gives 2^31 for -2^31
IsNegative(w) == w.hi >= HALF \div 2
Abs(w) ==
    IF IsNegative(w) THEN Minus(Word(0, 0), w) ELSE w

\* for (i = 0; i < str.length; i++): hash = ((hash << 5) - hash) + char;
\* hash = hash & hash; the loop's variables are i and hash
RECURSIVE HashLoop(_, _)
HashLoop(str, loop) ==
    IF loop.i > Len(str) THEN loop.hash
    ELSE HashLoop(str,
            [i |-> loop.i + 1,
             hash |-> Plus(Minus(ShiftLeft5(loop.hash), loop.hash),
                           CharCode[str[loop.i]])])

simpleHash(str) == Abs(HashLoop(str, [i |-> 1, hash |-> Word(0, 0)]))

\* hash % 2 === 0
IsEven(w) == w.lo % 2 = 0

gridSize == 25

\* a cell that is black whatever its hash is
CellAlwaysBlack(data, x, y) == TRUE

\* the cell at (x, y) gets a black rectangle
CellIsBlack(data, x, y) == IsEven(simpleHash(data \o NumText(x) \o NumText(y)))

\* String.prototype.replace with a pattern of one character: the first one
ReplaceFirst(s, c, by) ==
    IF \E i \in 1..Len(s) : s[i] = c
    THEN LET i == CHOOSE k \in 1..Len(s) :
                    s[k] = c /\ \A j \in 1..(k - 1) : s[j] # c
         IN  SubSeq(s, 1, i - 1) \o by \o SubSeq(s, i + 1, Len(s))
    ELSE s

\* the picture: its size, the black rectangles of the pattern as (x, y) in
\* the order they are written (y outside, x inside), and the text under it;
\* the finder patterns and all coordinates are fixed by the size
generateQRCodeSVG(data, size) ==
    LET cells == [k \in 1..(gridSize * gridSize) |->
                    <<(k - 1) % gridSize, (k - 1) \div gridSize>>]
        black(c) == CellIsBlack(data, c[1], c[2])
    IN  [size |-> size,
         pattern |-> SelectSeq(cells, black),
         label |-> ReplaceFirst(data, "#", <<>>)]


\* the response of the loader to a request with an order id, at a time
QRSize(size) == ParseInt(Param(size, <<"2", "0", "0">>))

QRCodeResponse(orderId, format, size, now) ==
    LET data == QRCodeDataAt(orderId, Param(format, QRFormat.simple), now)
    IN  [data |-> data, svg |-> generateQRCodeSVG(data, QRSize(size))]

----------------------------------------------------------------------------
\* the pages: the POS debug page, the performance monitor, the debug
\* dashboard and the debug page

PosDebugAfterAuth == Respond(200, Body("pos-debug", "absent", 0, <<>>, 0 - 1))
PerfMonitorAfterAuth == Respond(200, Body("metrics", "absent", 0, <<>>, 0 - 1))

\* the two queries of the dashboard, each with a catch of its own
DashboardQueries == <<"dashboardShop", "dashboardOrders">>

DashboardAfterAuth == Query(PlainQuery(DashboardQueries[1]))

DashboardResult(n) ==
    IF n < Len(DashboardQueries)
    THEN Query(PlainQuery(DashboardQueries[n + 1]))
    ELSE Respond(200, Body("dashboard", "absent", 0, <<>>, 0 - 1))

\* the tests that ask nothing of the platform
SimpleTest == Respond(200, SuccessBody("simple-test"))
BasicTest == Respond(200, SuccessBody("basic-test"))
EnvTest == Respond(200, SuccessBody("env-test"))

\* the debug page passes on what /api/debug answered, or a failure note
AppDebugPage(fetched) ==
    Respond(200, IF fetched THEN Body("debug-data", "absent", 0, <<>>, 0 - 1)
                 ELSE FailureBody("debug-data"))

(***************************************************************************)
(* One request to one route handler.                                       *)
(***************************************************************************)
\* the handlers that call authenticate.admin, and those that do not
AuthenticatingHandlers ==
    {"orderById", "orderByIdExt", "orderSearch", "orderList", "simpleList",
     "debug", "accessTest", "authTest", "graphqlAction", "qrcode",
     "posDebugPage", "perfMonitorPage", "debugDashboard"}

OpenHandlers == {"graphqlUsage", "simpleTest", "basicTest", "envTest"}

\* the debug page authenticates nothing and fetches /api/debug
FetchingHandlers == {"appDebugPage"}

Handlers == AuthenticatingHandlers \cup OpenHandlers \cup FetchingHandlers

\* the answer of a handler that asks nothing
OnEnter(h) ==
    CASE h = "graphqlUsage" -> GraphqlUsage
      [] h = "simpleTest" -> SimpleTest
      [] h = "basicTest" -> BasicTest
      [] h = "envTest" -> EnvTest

\* the step after authenticate.admin has returned
OnAuthOk(h, rq) ==
    CASE h = "orderById" -> OrderByIdAfterAuth(rq)
      [] h = "orderByIdExt" -> WithSuccess(OrderByIdAfterAuth(rq))
      [] h = "orderSearch" -> OrderSearchAfterAuth(rq)
      [] h = "orderList" -> OrderListAfterAuth(rq)
      [] h = "simpleList" -> SimpleListAfterAuth(rq)
      [] h = "debug" -> DebugAfterAuth
      [] h = "accessTest" -> AccessTestAfterAuth
      [] h = "authTest" -> TestAuthAfterAuth
      [] h = "graphqlAction" -> GraphqlActionAfterAuth(rq)
      [] h = "qrcode" -> QRCodeAfterAuth(rq)
      [] h = "posDebugPage" -> PosDebugAfterAuth
      [] h = "perfMonitorPage" -> PerfMonitorAfterAuth
      [] h = "debugDashboard" -> DashboardAfterAuth

\* a catch that answers 200 whatever was thrown
AuthFailStatusOk(h) == 200

\* the status of the catch that takes what authenticate.admin throws: the
\* two pages and the dashboard answer without a status, the others with 500
AuthFailStatus(h) ==
    IF h \in {"posDebugPage", "perfMonitorPage", "debugDashboard"} THEN 200
    ELSE 500

\* a handler that goes on after authenticate.admin has thrown
OnAuthFailGoOn(h, rq) == OnAuthOk(h, rq)

\* the step after authenticate.admin has thrown
OnAuthFail(h, rq) ==
    Respond(AuthFailStatus(h),
            IF h \in {"orderById", "orderSearch", "qrcode", "posDebugPage",
                      "perfMonitorPage", "debugDashboard"}
            THEN ErrorBody("exception")
            ELSE FailureBody("exception"))

\* the step after the upstream has answered the last query
OnResult(h, rq, qs, rs) ==
    LET q == qs[Len(qs)]
        res == rs[Len(rs)]
    IN  CASE h \in {"orderById"} -> OrderByIdResult(res)
          [] h = "orderByIdExt" -> WithSuccess(OrderByIdResult(res))
          [] h = "orderSearch" -> OrderSearchResult(q, res)
          [] h = "orderList" -> OrderListResult(rq, res)
          [] h = "simpleList" -> SimpleListResult(res)
          [] h = "debug" -> DebugResult(res)
          [] h = "accessTest" -> AccessTestResult(Len(rs))
          [] h = "authTest" -> TestAuthResult(res)
          [] h = "graphqlAction" -> GraphqlActionResult(res)
          [] h = "debugDashboard" -> DashboardResult(Len(rs))

----------------------------------------------------------------------------
\* the requests and the upstream's answers that are tried

SHOP_QUERY == <<"{", "s", "h", "o", "p", "{", "i", "d", "}", "}">>

NoParams ==
    [id |-> Absent, q |-> Absent, type |-> Absent, limit |-> Absent,
     filter |-> Absent, mode |-> Absent, query |-> Absent, format |-> Absent]

OrderIds == {<<"7">>, <<"1", "7">>, GID \o <<"7">>}
Terms ==
    {<<>>, <<" ">>, <<" ", "\n">>, <<"7">>, <<"1", "7">>, <<"#", "7">>,
     <<"a", "@", "b">>, <<"a", "b">>, <<"7", " ">>, GID \o <<"7">>}
Types ==
    {SearchType.id, SearchType.name, SearchType.email, SearchType.customer,
     SearchType.phone, SearchType.auto,
     <<"x">>}
Limits ==
    {<<"0">>, <<"3">>, <<"5", "0">>, <<"9", "9">>, <<"2", "0", "0">>, <<"x">>,
     <<"-", "1">>}
Filters ==
    {ListFilter.all, ListFilter.today, ListFilter.week, ListFilter.pending,
     ListFilter.fulfilled, ListFilter.paid, ListFilter.unpaid, <<"x">>}

Optional(S) == S \cup {Absent}

\* the requests to the order search that the pages issue: the performance
\* monitor, the debug dashboard and the debug API page ask for
\* /api/orders/search?query=test, the debug page links to
\* /api/orders/search?q=1&type=id
TEST_TERM == <<"t", "e", "s", "t">>
MonitorSearchRequest == [NoParams EXCEPT !.query = TEST_TERM]
DebugPageSearchRequest ==
    [NoParams EXCEPT !.q = <<"1">>, !.type = SearchType.id]
TestSearchRequests == {MonitorSearchRequest, DebugPageSearchRequest}

Requests(h) ==
    CASE h \in {"orderById", "orderByIdExt"} ->
            {[NoParams EXCEPT !.id = id] : id \in Optional(OrderIds)}
      [] h = "orderSearch" ->
            {[NoParams EXCEPT !.q = q, !.type = ty, !.limit = l] :
                q \in Optional(Terms), ty \in Optional(Types),
                l \in Optional(Limits)}
            \cup TestSearchRequests
      [] h = "orderList" ->
            {[NoParams EXCEPT !.filter = f, !.limit = l] :
                f \in Optional(Filters), l \in Optional(Limits)}
      [] h = "simpleList" ->
            {[NoParams EXCEPT !.mode = m, !.limit = l] :
                m \in Optional({MODE_BASIC, <<"x">>}), l \in Optional(Limits)}
      [] h = "graphqlAction" ->
            {[NoParams EXCEPT !.query = q] : q \in Optional({SHOP_QUERY})}
      [] h = "qrcode" ->
            {[NoParams EXCEPT !.id = id, !.format = f] :
                id \in Optional(OrderIds),
                f \in Optional({QRFormat.json, QRFormat.url, <<"x">>})}
      [] OTHER -> {NoParams}

Orders == 1..MaxOrders

RECURSIVE SeqsUpTo(_, _)
SeqsUpTo(S, n) ==
    IF n = 0 THEN {<<>>}
    ELSE LET shorter == SeqsUpTo(S, n - 1)
         IN  shorter \cup {Append(s, x) : s \in shorter, x \in S}

Thrown ==
    [thrown |-> TRUE, httpOk |-> FALSE, status |-> 0, errors |-> FALSE,
     hasData |-> FALSE, order |-> 0, hasEdges |-> FALSE, edges |-> <<>>]

Answer(httpOk, status, errors, hasData, order, hasEdges, edges) ==
    [thrown |-> FALSE, httpOk |-> httpOk, status |-> status,
     errors |-> errors, hasData |-> hasData, order |-> order,
     hasEdges |-> hasEdges, edges |-> edges]

\* what the upstream can do with a query: throw, answer with a status that
\* is not ok, or answer with errors, with data, with both or with neither
Results(q) ==
    {Thrown}
    \cup {Answer(FALSE, st, FALSE, FALSE, 0, FALSE, <<>>) : st \in {401, 502}}
    \cup {Answer(TRUE, 200, e, FALSE, 0, FALSE, <<>>) : e \in BOOLEAN}
    \cup (CASE q.op \in {"getOrder", "getOrderById"} ->
                {Answer(TRUE, 200, e, TRUE, o, FALSE, <<>>) :
                    e \in BOOLEAN, o \in Orders \cup {0}}
            [] q.op \in {"searchOrders", "listOrders", "simpleOrders",
                         "basicOrders"} ->
                {Answer(TRUE, 200, e, TRUE, 0, TRUE, edges) :
                    e \in BOOLEAN, edges \in SeqsUpTo(Orders, MaxOrders)}
                \cup {Answer(TRUE, 200, e, TRUE, 0, FALSE, <<>>) :
                         e \in BOOLEAN}
            [] OTHER ->
                {Answer(TRUE, 200, e, TRUE, 0, FALSE, <<>>) : e \in BOOLEAN})

----------------------------------------------------------------------------
\* the steps of a request

\* a step ends with the response or with one more query to the upstream
Apply(step) ==
    IF step.do = "respond"
    THEN /\ rpc' = "done"
         /\ response' = [status |-> step.status, body |-> step.body]
         /\ UNCHANGED queries
    ELSE /\ rpc' = "query"
         /\ queries' = Append(queries, step.q)
         /\ UNCHANGED response

\* the handler is entered: it calls authenticate.admin, or fetches, or
\* answers at once
Enter ==
    /\ rpc = "start"
    /\ IF handler \in AuthenticatingHandlers
       THEN /\ rpc' = "auth"
            /\ authState' = "pending"
            /\ UNCHANGED <<queries, response>>
       ELSE IF handler \in FetchingHandlers
       THEN /\ rpc' = "fetch"
            /\ UNCHANGED <<authState, queries, response>>
       ELSE /\ Apply(OnEnter(handler))
            /\ UNCHANGED authState
    /\ UNCHANGED <<handler, request, results, exceptRoutes>>

\* authenticate.admin returns the admin client and the session
AuthResolves ==
    /\ rpc = "auth"
    /\ authState' = "ok"
    /\ Apply(OnAuthOk(handler, request))
    /\ UNCHANGED <<handler, request, results, exceptRoutes>>

\* authenticate.admin throws
AuthRejects ==
    /\ rpc = "auth"
    /\ authState' = "failed"
    /\ Apply(OnAuthFail(handler, request))
    /\ UNCHANGED <<handler, request, results, exceptRoutes>>

\* admin.graphql and response.json() are through, or one of them has thrown
GraphqlReturns ==
    /\ rpc = "query"
    /\ \E res \in Results(queries[Len(queries)]) :
          /\ results' = Append(results, res)
          /\ Apply(OnResult(handler, request, queries, results'))
    /\ UNCHANGED <<handler, request, authState, exceptRoutes>>

\* the debug page's fetch of /api/debug is through, or has thrown
FetchReturns ==
    /\ rpc = "fetch"
    /\ \E fetched \in BOOLEAN : Apply(AppDebugPage(fetched))
    /\ UNCHANGED <<handler, request, authState, results, exceptRoutes>>

RouteInit ==
    /\ handler \in Handlers
    /\ request \in Requests(handler)
    /\ rpc = "start"
    /\ authState = "none"
    /\ queries = <<>>
    /\ results = <<>>
    /\ response = Absent
    /\ ParseIdle
    /\ ModalIdle
    /\ OfflineIdle
    /\ QRIdle
    /\ GeneratorIdle
    /\ ActionsIdle
    /\ MonitorIdle

RouteNext ==
    \/ Enter
    \/ AuthResolves
    \/ AuthRejects
    \/ GraphqlReturns
    \/ FetchReturns

SpecRoutes == RouteInit /\ [][RouteNext]_vars

(***************************************************************************)
(* Claims about the route handlers.                                        *)
(***************************************************************************)
Answered == rpc = "done"

\* C3: no upstream query is issued for a request unless authenticate.admin
\* has returned for that request; after it has thrown, none is issued
C3_NoQueryWithoutAuth ==
    /\ queries # <<>> => authState = "ok"
    /\ authState \in {"none", "pending", "failed"} => queries = <<>>
    /\ Len(results) <= Len(queries)

C3_Witness ==
    /\ handler = "accessTest"
    /\ authState = "ok"
    /\ Len(queries) = Len(AccessTestQueries)
    /\ Answered

\* C4 as stated: no handler answers 200 to a request that it has not
\* authenticated
C4_OnlyAuthenticated200 ==
    (Answered /\ response.status = 200) => authState = "ok"

\* the handlers whose catch answers 500 when authenticate.admin throws
GuardedHandlers ==
    {"orderById", "orderByIdExt", "orderSearch", "orderList", "simpleList",
     "debug", "accessTest", "authTest", "graphqlAction", "qrcode"}

\* C4, amended: the handlers that query orders or the shop for an API
\* answer, and the QR code handler, answer 200 only to a request that
\* authenticate.admin has accepted
C4_GuardedHandlers200 ==
    (handler \in GuardedHandlers /\ Answered /\ response.status = 200)
        => authState = "ok"

C4_Witness ==
    /\ handler = "qrcode"
    /\ Answered
    /\ response.status = 200
    /\ authState = "ok"
    /\ queries = <<>>

\* C8: order by id, once authenticated: no id, 400 and no query; errors in
\* the result, 400, with or without an order; no errors and no order, 404;
\* an order, 200 with that order; anything thrown, 500
C8_OrderByIdStatuses ==
    (handler \in {"orderById", "orderByIdExt"} /\ Answered) =>
        IF authState = "failed"
        THEN response.status = 500 /\ queries = <<>>
        ELSE IF request.id = Absent
        THEN response.status = 400 /\ queries = <<>>
        ELSE /\ Len(queries) = 1
             /\ Len(results) = 1
             /\ LET res == results[1]
                IN  /\ res.thrown => response.status = 500
                    /\ (~res.thrown /\ res.errors) => response.status = 400
                    /\ (~res.thrown /\ ~res.errors /\ res.order = 0)
                          => response.status = 404
                    /\ (~res.thrown /\ ~res.errors /\ res.order # 0)
                          => /\ response.status = 200
                             /\ response.body.order = res.order

C8_Witness ==
    /\ handler \in {"orderById", "orderByIdExt"}
    /\ Answered
    /\ Len(results) = 1
    /\ results[1].errors
    /\ results[1].order # 0
    /\ response.status = 400

\* q is absent, empty or white space only
BlankTerm(q) == q = Absent \/ \A i \in 1..Len(q) : q[i] \in {" ", "\n"}

\* C9 as stated: the search answers 400 to a request without a term, and
\* queries nothing for it
C9_BlankTermIs400 ==
    (handler = "orderSearch" /\ BlankTerm(request.q)) =>
        /\ queries = <<>>
        /\ Answered => response.status = 400

\* C9, amended: the search queries nothing for a request without a term; it
\* answers 400 once authenticate.admin has accepted the request, and 500
\* when authenticate.admin has thrown
C9_BlankTermNoQuery ==
    (handler = "orderSearch" /\ BlankTerm(request.q)) =>
        /\ queries = <<>>
        /\ (Answered /\ authState = "ok") => response.status = 400
        /\ (Answered /\ authState = "failed") => response.status = 500

C9_Witness ==
    /\ handler = "orderSearch"
    /\ request.q = <<" ", "\n">>
    /\ authState = "ok"
    /\ Answered
    /\ response.status = 400
    /\ queries = <<>>

\* the lookup that the claim names for a term and a type
LookupIsById(rq) ==
    LET type == IF rq.type = Absent THEN SearchType.auto ELSE rq.type
    IN  \/ type = SearchType.id
        \/ /\ type = SearchType.auto
           /\ rq.q # <<>>
           /\ \A i \in 1..Len(rq.q) : rq.q[i] \in Digit

OneLookupAsChosen ==
    /\ Len(queries) = 1
    /\ IF LookupIsById(request)
       THEN /\ queries[1].op = "getOrderById"
            /\ queries[1].id =
                  IF /\ Len(request.q) >= Len(GID_PREFIX)
                     /\ SubSeq(request.q, 1, Len(GID_PREFIX)) = GID_PREFIX
                  THEN request.q
                  ELSE GID \o request.q
       ELSE queries[1].op = "searchOrders"

\* C10 as stated: every answered search request has made exactly one query,
\* by id or by search as the type and the term say
C10_OneLookupEveryRequest ==
    (handler = "orderSearch" /\ Answered) => OneLookupAsChosen

\* C10, amended: an answered search request that authenticate.admin has
\* accepted and that has a term has made exactly one query: by id, with
\* the id gid://shopify/Order/<term> or the term itself when it starts with
\* gid://, for type=id and for type=auto with a term of digits only; and
\* by search otherwise
C10_OneLookupWithTerm ==
    (/\ handler = "orderSearch"
     /\ Answered
     /\ authState = "ok"
     /\ ~BlankTerm(request.q)) => OneLookupAsChosen

C10_Witness ==
    /\ handler = "orderSearch"
    /\ Answered
    /\ request.type = SearchType.id
    /\ request.q = GID \o <<"7">>
    /\ queries = <<GetOrderQuery("getOrderById", request.q)>>

\* type=auto, given or by default
AutoType(rq) == rq.type = Absent \/ rq.type = SearchType.auto

\* C11: with search type auto, given or by default, a term that contains
\* '@' is searched by e-mail address: the search query that is sent upstream
\* is email:<term>
C11_AutoAtSearchesByEmail ==
    (/\ handler = "orderSearch"
     /\ authState = "ok"
     /\ AutoType(request)
     /\ request.q # Absent
     /\ Includes(request.q, <<"@">>)
     /\ queries # <<>>) => queries[1].query = SearchQ.email \o request.q

\* C12: a request of the order list with filter set to a key that the
\* endpoint advertises is answered with exactly that key marked active, and
\* the key 'all' sends no search condition upstream
C12_AdvertisedFilterIsActive ==
    (/\ handler = "orderList"
     /\ Answered
     /\ response.status = 200
     /\ request.filter # Absent
     /\ \E i \in 1..Len(AvailableFilters) : request.filter = AvailableFilters[i])
        => /\ response.body.active = {request.filter}
           /\ request.filter = ListFilter.all => queries[1].query = Absent

\* the endpoints with a page size, their caps and their defaults
PagedHandlers == {"orderSearch", "simpleList", "orderList"}
LimitCap(h) ==
    CASE h = "orderSearch" -> 50 [] h = "simpleList" -> 10 [] h = "orderList" -> 100
LimitDefault(h) ==
    CASE h = "orderSearch" -> 10 [] h = "simpleList" -> 5 [] h = "orderList" -> 20

\* a limit parameter that is an integer, and the integer
IsInteger(s) ==
    \/ AllDigits(s)
    \/ Len(s) > 1 /\ s[1] = "-" /\ AllDigits(Tail(s))
IntegerOf(s) == IF s[1] = "-" THEN 0 - Decimal(Tail(s)) ELSE Decimal(s)

\* the upstream query of a paged endpoint that carries a page size
PagedQuerySent ==
    /\ handler \in PagedHandlers
    /\ queries # <<>>
    /\ queries[1].op \in {"searchOrders", "simpleOrders", "basicOrders",
                          "listOrders"}

\* C20: the page size sent upstream as the variable first never exceeds the
\* cap of the endpoint (50 for the search, 10 for the simple list, 100 for
\* the order list) for an integer limit parameter, is the limit that was
\* asked for when that is at most the cap, zero and negative limits
\* included, and is the default (10, 5, 20) when the parameter is absent
C20_PageSizeCapped ==
    PagedQuerySent =>
        LET first == queries[1].first
            limit == request.limit
        IN  /\ (limit # Absent /\ IsInteger(limit)) =>
                /\ ~first.nan
                /\ first.n <= LimitCap(handler)
                /\ IntegerOf(limit) <= LimitCap(handler) =>
                        first.n = IntegerOf(limit)
            /\ limit = Absent =>
                    ~first.nan /\ first.n = LimitDefault(handler)

\* the search has sent the page size 50 for a limit of 50
C20_Witness ==
    /\ PagedQuerySent
    /\ handler = "orderSearch"
    /\ request.limit = <<"5", "0">>
    /\ queries[1].first = Int32(50)

(***************************************************************************)
(* The offline manager.  Its state lives in the component, so it is made   *)
(* when the manager is shown and gone when it is closed.  The view is the  *)
(* record of that state together with the local storage of the device.     *)
(***************************************************************************)

LOG_LIMIT == 50

\* a cached order: of its fields the identifier, the order number and the
\* time of its last sync; the other fields are fixed by the identifier
CachedOrder(id, lastSynced) ==
    [id |-> id, orderNumber |-> <<"#", id>>, lastSynced |-> lastSynced]

mockCachedOrders ==
    <<CachedOrder("1001", Time.mock), CachedOrder("1002", NotSynced)>>

\* the entries of the sync log, without their time stamps
SyncLogEntry(message, detail) == [message |-> message, detail |-> detail]
LogText ==
    [loaded |-> "cache loaded", loadFailed |-> "cache load failed",
     online |-> "network: online", offline |-> "network: offline",
     syncStarted |-> "sync started", synced |-> "order synced",
     syncDone |-> "sync completed", syncFailed |-> "sync failed",
     cleared |-> "cache cleared", testing |-> "testing connection",
     testOk |-> "connection test succeeded",
     testFailed |-> "connection test failed"]

View ==
    [cachedOrders |-> cachedOrders, syncStatus |-> syncStatus,
     isSyncing |-> isSyncing, syncLog |-> syncLog, storage |-> storage]

\* the view of a manager that has just been constructed
NewView(store) ==
    [cachedOrders |-> <<>>, syncStatus |-> InitialSyncStatus,
     isSyncing |-> FALSE, syncLog |-> <<>>, storage |-> store]

SetView(v) ==
    /\ cachedOrders' = v.cachedOrders
    /\ syncStatus' = v.syncStatus
    /\ isSyncing' = v.isSyncing
    /\ syncLog' = v.syncLog
    /\ storage' = v.storage

\* the calls of localStorage.setItem and localStorage.removeItem are comments
\* in the source: storing and removing leave the storage as it is
PersistWrites(store, key, value) == [store EXCEPT ![key] = Item(value)]
Persist(store, key, value) == store
Forget(store, key) == store

Merge(prev, updates) ==
    [f \in DOMAIN prev |-> IF f \in DOMAIN updates THEN updates[f] ELSE prev[f]]

updateSyncStatus(v, updates) ==
    LET newStatus == Merge(v.syncStatus, updates)
    IN  [v EXCEPT !.syncStatus = newStatus,
                  !.storage = Persist(@, SYNC_STATUS_KEY, newStatus)]

Slice(s, n) == SubSeq(s, 1, IF Len(s) < n THEN Len(s) ELSE n)

addSyncLog(v, entry) ==
    LET newLog == Slice(<<entry>> \o v.syncLog, LOG_LIMIT)
    IN  [v EXCEPT !.syncLog = newLog,
                  !.storage = Persist(@, SYNC_LOG_KEY, newLog)]

IsSynced(order) == order.lastSynced # NotSynced
IsPending(order) == ~IsSynced(order)

\* the later of two times
Later(a, b) == IF a = Time.now \/ b = Time.now THEN Time.now ELSE Time.mock

\* the last sync of the order that was synced last, or null
RECURSIVE LatestSync(_)
LatestSync(orders) ==
    LET synced == SelectSeq(orders, IsSynced)
    IN  IF synced = <<>> THEN Time.null
        ELSE IF Len(synced) = 1 THEN synced[1].lastSynced
        ELSE Later(synced[1].lastSynced, LatestSync(Tail(synced)))

loadCachedData(v) ==
    LET loaded == [v EXCEPT !.cachedOrders = mockCachedOrders]
        counted ==
            updateSyncStatus(loaded,
                [totalCached |-> Len(mockCachedOrders),
                 pendingSync |-> Len(SelectSeq(mockCachedOrders, IsPending)),
                 lastSync |-> LatestSync(mockCachedOrders)])
    IN  addSyncLog(counted, SyncLogEntry(LogText.loaded, ""))

checkOnlineStatus(v) ==
    LET isOnline == TRUE
    IN  addSyncLog(updateSyncStatus(v, [isOnline |-> isOnline]),
            SyncLogEntry(IF isOnline THEN LogText.online ELSE LogText.offline,
                         ""))

\* the effect that runs once when the manager is shown
OnMount(v) == checkOnlineStatus(loadCachedData(v))

\* a clearCache that empties the cache and leaves the counts as they are
clearCacheKeepsCounts(v) ==
    LET emptied == [v EXCEPT !.cachedOrders = <<>>, !.syncLog = <<>>]
    IN  addSyncLog(emptied, SyncLogEntry(LogText.cleared, ""))

clearCache(v) ==
    LET emptied == [v EXCEPT !.cachedOrders = <<>>, !.syncLog = <<>>]
        zeroed ==
            updateSyncStatus(emptied,
                [totalCached |-> 0, pendingSync |-> 0, lastSync |-> Time.null])
        removed ==
            [zeroed EXCEPT !.storage =
                Forget(Forget(Forget(@, CACHE_KEY), SYNC_STATUS_KEY),
                       SYNC_LOG_KEY)]
    IN  addSyncLog(removed, SyncLogEntry(LogText.cleared, ""))

\* syncData up to its first wait, one order of it, and its end
SyncStart(v) ==
    addSyncLog([v EXCEPT !.isSyncing = TRUE],
               SyncLogEntry(LogText.syncStarted, ""))

MarkSynced(orders, id) ==
    [i \in 1..Len(orders) |->
        IF orders[i].id = id THEN [orders[i] EXCEPT !.lastSynced = Time.now]
        ELSE orders[i]]

SyncOrder(v, order) ==
    addSyncLog([v EXCEPT !.cachedOrders = MarkSynced(@, order.id)],
               SyncLogEntry(LogText.synced, order.id))

SyncEnd(v, n) ==
    LET stamped ==
            updateSyncStatus(v, [lastSync |-> Time.now, pendingSync |-> 0])
        logged == addSyncLog(stamped, SyncLogEntry(LogText.syncDone, ToString(n)))
    IN  [logged EXCEPT !.isSyncing = FALSE]

\* testConnection up to its wait, and after it
TestStart(v) == addSyncLog(v, SyncLogEntry(LogText.testing, ""))
\* a connection test that fails: the catch of testConnection
TestEndFailed(v) ==
    addSyncLog(updateSyncStatus(v, [isOnline |-> FALSE]),
               SyncLogEntry(LogText.testFailed, ""))

\* the timer of testConnection cannot reject, so its try runs to its end
TestEnd(v) ==
    addSyncLog(updateSyncStatus(v, [isOnline |-> TRUE]),
               SyncLogEntry(LogText.testOk, ""))

\* a handler of the manager that waits for its timer: the pending orders it
\* still has to sync, how many it started with, and whether the manager it
\* belongs to is still shown
SyncTask(pending) ==
    [kind |-> "sync", rest |-> pending, n |-> Len(pending), live |-> TRUE]
TestTask == [kind |-> "test", rest |-> <<>>, n |-> 0, live |-> TRUE]

\* closing the manager leaves its timers running; what they then set is
\* the state of a component that is gone
Orphaned(ts) == [i \in 1..Len(ts) |-> [ts[i] EXCEPT !.live = FALSE]]

(***************************************************************************)
(* The scanner view (Modal.tsx).  A handler that awaits is a task: it      *)
(* stands at its await until the toast or the answer of the search         *)
(* endpoint is there, and other handlers run in between.                   *)
(***************************************************************************)
OBJECT_TEXT ==
    <<"[", "o", "b", "j", "e", "c", "t", " ", "O", "b", "j", "e", "c", "t",
      "]">>
UNDEFINED_TXT == <<"u", "n", "d", "e", "f", "i", "n", "e", "d">>

\* String(v), as encodeURIComponent and a template literal apply it
RECURSIVE ToText(_), JoinTexts(_)
ToText(v) ==
    CASE v.t \in {"str", "num", "bool"} -> v.s
      [] v.t = "null" -> NULL_TXT
      [] v.t = "undef" -> UNDEFINED_TXT
      [] v.t = "obj" -> OBJECT_TEXT
      [] v.t = "arr" -> JoinTexts(v.m)

JoinTexts(m) ==
    IF m = <<>> THEN <<>>
    ELSE (IF m[1].t \in {"null", "undef"} THEN <<>> ELSE ToText(m[1]))
         \o (IF Len(m) > 1 THEN <<",">> \o JoinTexts(Tail(m)) ELSE <<>>)

\* the messages that error can hold; "null" is no message
INVALID_QR == "invalid QR format"
ENTER_QUERY == "enter a search query"

\* what the search endpoint can answer, and a fetch that throws.  error and
\* message are the texts of the body, "null" where it has none
SearchResponse(thrown, ok, status, err, success, hasOrders, orders, message) ==
    [thrown |-> thrown, ok |-> ok, status |-> status, error |-> err,
     success |-> success, hasOrders |-> hasOrders, orders |-> orders,
     message |-> message]

\* the lists of orders that are found: any one order, or the first n
FoundLists ==
    {<<o>> : o \in Orders} \cup {[i \in 1..n |-> i] : n \in 2..MaxOrders}

SearchResponses ==
    {SearchResponse(TRUE, FALSE, 0, "network error", FALSE, FALSE, <<>>,
                    "null")}
    \cup {SearchResponse(FALSE, FALSE, 500, "search error", FALSE, FALSE,
                         <<>>, "null"),
          SearchResponse(FALSE, FALSE, 502, "null", FALSE, FALSE, <<>>,
                         "null")}
    \cup {SearchResponse(FALSE, TRUE, 200, "null", FALSE, TRUE, <<>>,
                         "none found")}
    \cup {SearchResponse(FALSE, TRUE, 200, "null", TRUE, TRUE, found,
                         "found") : found \in FoundLists}

\* the message of what searchOrders throws: what fetch or response.json()
\* threw, or new Error(data.error || `...${response.status}`)
ThrownMessage(resp) ==
    IF resp.thrown THEN resp.error
    ELSE IF resp.error # "null" THEN resp.error
    ELSE "search API status error"

\* searchOrders after its await: "thrown" with the message, or "returned"
\* with the orders and the message that setError is called with
searchOrders(resp) ==
    IF resp.thrown \/ ~resp.ok
    THEN [how |-> "thrown", orders |-> <<>>, error |-> ThrownMessage(resp)]
    ELSE IF ~resp.success \/ ~resp.hasOrders
    THEN [how |-> "returned", orders |-> <<>>, error |-> resp.message]
    ELSE [how |-> "returned", orders |-> resp.orders, error |-> "null"]

\* no answer is on its way
NoResponse ==
    SearchResponse(FALSE, FALSE, 0, "null", FALSE, FALSE, <<>>, "null")

\* a scan that waits for its toast, and a handler that waits for the answer
\* resp of the search endpoint
ScanTask(data) ==
    [kind |-> "scan", pc |-> "toast", data |-> data, resp |-> NoResponse]
FetchTask(kind, data, resp) ==
    [kind |-> kind, pc |-> "fetch", data |-> data, resp |-> resp]

Remove(s, i) == SubSeq(s, 1, i - 1) \o SubSeq(s, i + 1, Len(s))

\* the screen that is rendered
DetailsScreen == showOrderDetails /\ orderInfo # 0
ResultsScreen == ~DetailsScreen /\ showSearchResults /\ searchResults # <<>>
OfflineScreen == ~DetailsScreen /\ ~ResultsScreen /\ showOfflineManager
MainScreen == ~DetailsScreen /\ ~ResultsScreen /\ ~showOfflineManager

\* room for one more handler that may send a request
Room == Len(tasks) + Len(sent) < MaxRequests

\* the values that are scanned and typed, and the search types with a button
ScanValues ==
    {<<"#", "7">>, <<"x">>, <<"{", "\"", "i", "d", "\"", ":", "0", "}">>}
ManualInputs == {<<>>, <<" ">>, <<"7", " ">>}
ButtonTypes == {SearchType.auto, SearchType.id, SearchType.email}

\* the condition of the effect on the scanner data
EffectFires(data, showing, last) ==
    data # Absent /\ data # <<>> /\ showing /\ data # last

\* the effect takes up a scan: it notes the value, counts the scan, hides
\* the scanner and starts handleScanSuccess, which awaits its toast
TakeUpScan(data) ==
    /\ scanCount < MaxScans
    /\ Room
    /\ lastScannedData' = data
    /\ scanCount' = scanCount + 1
    /\ showScanner' = FALSE
    /\ tasks' = Append(tasks, ScanTask(data))

\* the scanner subscription delivers a value
ScannerDelivers ==
    /\ \E data \in ScanValues :
          /\ data # scannerData
          /\ scannerData' = data
          /\ IF EffectFires(data, showScanner, lastScannedData)
             THEN TakeUpScan(data)
             ELSE UNCHANGED <<lastScannedData, scanCount, showScanner, tasks>>
    /\ UNCHANGED <<manualInput, searchType, orderInfo, searchResults,
                   isLoading, error, showOrderDetails, showOfflineManager,
                   showSearchResults, sent, exceptModal>>

\* the scan button; the effect then sees the scanner shown and no last value
startCameraScanning ==
    /\ MainScreen /\ ~showScanner /\ ~isLoading
    /\ error' = "null"
    /\ IF EffectFires(scannerData, TRUE, Absent)
       THEN TakeUpScan(scannerData)
       ELSE /\ showScanner' = TRUE
            /\ lastScannedData' = Absent
            /\ UNCHANGED <<scanCount, tasks>>
    /\ UNCHANGED <<scannerData, manualInput, searchType, orderInfo,
                   searchResults, isLoading, showOrderDetails,
                   showOfflineManager, showSearchResults, sent, exceptModal>>

\* the stop button
stopCameraScanning ==
    /\ MainScreen /\ showScanner
    /\ showScanner' = FALSE
    /\ lastScannedData' = Absent
    /\ UNCHANGED <<scannerData, manualInput, searchType, orderInfo,
                   searchResults, isLoading, error, scanCount,
                   showOrderDetails, showOfflineManager, showSearchResults,
                   tasks, sent, exceptModal>>

\* handleScanSuccess after its toast: a value that parses starts
\* fetchOrderData, that is searchOrders(orderId, 'id'); one that does not
\* sets the error
ScanParsed(i) ==
    LET orderId == parseQRCode(tasks[i].data)
    IN  IF Truthy(orderId)
        THEN /\ isLoading' = TRUE
             /\ error' = "null"
             /\ sent' = Append(sent, [q |-> ToText(orderId),
                                      type |-> SearchType.id])
             /\ \E resp \in SearchResponses :
                   tasks' = [tasks EXCEPT
                                ![i] = FetchTask("scan", tasks[i].data, resp)]
        ELSE /\ error' = INVALID_QR
             /\ tasks' = Remove(tasks, i)
             /\ UNCHANGED <<isLoading, sent>>

handleScanSuccess ==
    /\ \E i \in 1..Len(tasks) :
          /\ tasks[i].kind = "scan"
          /\ tasks[i].pc = "toast"
          /\ ScanParsed(i)
    /\ UNCHANGED <<scannerData, showScanner, manualInput, searchType,
                   orderInfo, searchResults, scanCount, lastScannedData,
                   showOrderDetails, showOfflineManager, showSearchResults,
                   exceptModal>>

\* the answer to a scan's lookup is there: searchOrders sets the message of
\* an answer without orders and ends the loading; what it throws goes
\* through fetchOrderData and handleScanSuccess and is caught nowhere
ScanLookupDone(i) ==
    LET out == searchOrders(tasks[i].resp)
    IN  /\ isLoading' = FALSE
        /\ error' = IF out.how = "returned" /\ out.error # "null"
                    THEN out.error ELSE error
        /\ orderInfo' = IF out.how = "returned" /\ Len(out.orders) > 0
                        THEN out.orders[1] ELSE orderInfo
        /\ tasks' = Remove(tasks, i)

fetchOrderData ==
    /\ \E i \in 1..Len(tasks) :
          /\ tasks[i].kind = "scan"
          /\ tasks[i].pc = "fetch"
          /\ ScanLookupDone(i)
    /\ UNCHANGED <<scannerData, showScanner, manualInput, searchType,
                   searchResults, scanCount, lastScannedData,
                   showOrderDetails, showOfflineManager, showSearchResults,
                   sent, exceptModal>>

\* the text field and the search type buttons
setManualInput ==
    /\ MainScreen /\ ~showScanner
    /\ \E text \in ManualInputs : text # manualInput /\ manualInput' = text
    /\ UNCHANGED <<scannerData, showScanner, searchType, orderInfo,
                   searchResults, isLoading, error, scanCount,
                   lastScannedData, showOrderDetails, showOfflineManager,
                   showSearchResults, tasks, sent, exceptModal>>

setSearchType ==
    /\ MainScreen /\ ~showScanner
    /\ \E type \in ButtonTypes : type # searchType /\ searchType' = type
    /\ UNCHANGED <<scannerData, showScanner, manualInput, orderInfo,
                   searchResults, isLoading, error, scanCount,
                   lastScannedData, showOrderDetails, showOfflineManager,
                   showSearchResults, tasks, sent, exceptModal>>

\* the search button, up to the await in searchOrders
handleManualSearch ==
    /\ MainScreen /\ ~showScanner
    /\ ~isLoading /\ Trim(manualInput) # <<>>
    /\ Room
    /\ IF Trim(manualInput) = <<>>
       THEN /\ error' = ENTER_QUERY
            /\ UNCHANGED <<isLoading, sent, tasks>>
       ELSE /\ isLoading' = TRUE
            /\ error' = "null"
            /\ sent' = Append(sent, [q |-> Trim(manualInput),
                                     type |-> searchType])
            /\ \E resp \in SearchResponses :
                  tasks' = Append(tasks, FetchTask("manual", <<>>, resp))
    /\ UNCHANGED <<scannerData, showScanner, manualInput, searchType,
                   orderInfo, searchResults, scanCount, lastScannedData,
                   showOrderDetails, showOfflineManager, showSearchResults,
                   exceptModal>>

\* a handler that lists whatever it has found, a single order too
ManualSearchDoneListsOne(i) ==
    LET out == searchOrders(tasks[i].resp)
        n == Len(out.orders)
    IN  /\ isLoading' = FALSE
        /\ error' = IF out.error # "null" THEN out.error ELSE error
        /\ orderInfo' = IF n = 1 THEN out.orders[1] ELSE orderInfo
        /\ manualInput' = IF n = 1 THEN <<>> ELSE manualInput
        /\ scanCount' = IF n = 1 THEN scanCount + 1 ELSE scanCount
        /\ searchResults' = IF n > 0 THEN out.orders ELSE searchResults
        /\ showSearchResults' = IF n > 0 THEN TRUE ELSE showSearchResults
        /\ tasks' = Remove(tasks, i)

\* the answer to a manual search is there: one order is shown, several are
\* listed, and what searchOrders throws is caught and becomes the error
ManualSearchDone(i) ==
    LET out == searchOrders(tasks[i].resp)
        n == Len(out.orders)
    IN  /\ isLoading' = FALSE
        /\ error' = IF out.error # "null" THEN out.error ELSE error
        /\ orderInfo' = IF n = 1 THEN out.orders[1] ELSE orderInfo
        /\ manualInput' = IF n = 1 THEN <<>> ELSE manualInput
        /\ scanCount' = IF n = 1 THEN scanCount + 1 ELSE scanCount
        /\ searchResults' = IF n > 1 THEN out.orders ELSE searchResults
        /\ showSearchResults' = IF n > 1 THEN TRUE ELSE showSearchResults
        /\ tasks' = Remove(tasks, i)

manualSearchReturns ==
    /\ \E i \in 1..Len(tasks) :
          /\ tasks[i].kind = "manual"
          /\ tasks[i].pc = "fetch"
          /\ ManualSearchDone(i)
    /\ UNCHANGED <<scannerData, showScanner, searchType, lastScannedData,
                   showOrderDetails, showOfflineManager, sent, exceptModal>>

\* an order of the list is pressed
selectOrderFromResults ==
    /\ ResultsScreen
    /\ \E i \in 1..Len(searchResults) : orderInfo' = searchResults[i]
    /\ showSearchResults' = FALSE
    /\ searchResults' = <<>>
    /\ UNCHANGED <<scannerData, showScanner, manualInput, searchType,
                   isLoading, error, scanCount, lastScannedData,
                   showOrderDetails, showOfflineManager, tasks, sent,
                   exceptModal>>

handleBackFromSearchResults ==
    /\ ResultsScreen
    /\ showSearchResults' = FALSE
    /\ searchResults' = <<>>
    /\ UNCHANGED <<scannerData, showScanner, manualInput, searchType,
                   orderInfo, isLoading, error, scanCount, lastScannedData,
                   showOrderDetails, showOfflineManager, tasks, sent,
                   exceptModal>>

\* the details button and the way back
viewOrderDetails ==
    /\ MainScreen /\ ~showScanner /\ orderInfo # 0
    /\ showOrderDetails' = TRUE
    /\ UNCHANGED <<scannerData, showScanner, manualInput, searchType,
                   orderInfo, searchResults, isLoading, error, scanCount,
                   lastScannedData, showOfflineManager, showSearchResults,
                   tasks, sent, exceptModal>>

handleBackFromDetails ==
    /\ DetailsScreen
    /\ showOrderDetails' = FALSE
    /\ UNCHANGED <<scannerData, showScanner, manualInput, searchType,
                   orderInfo, searchResults, isLoading, error, scanCount,
                   lastScannedData, showOfflineManager, showSearchResults,
                   tasks, sent, exceptModal>>

\* the new search button under the order
newSearch ==
    /\ MainScreen /\ ~showScanner /\ orderInfo # 0
    /\ orderInfo' = 0
    /\ error' = "null"
    /\ lastScannedData' = Absent
    /\ manualInput' = <<>>
    /\ UNCHANGED <<scannerData, showScanner, searchType, searchResults,
                   isLoading, scanCount, showOrderDetails,
                   showOfflineManager, showSearchResults, tasks, sent,
                   exceptModal>>

\* the offline manager is opened, and left by its back button
openOfflineManager ==
    /\ MainScreen /\ ~showScanner
    /\ showOfflineManager' = TRUE
    /\ SetView(OnMount(NewView(storage)))
    /\ UNCHANGED <<scannerData, showScanner, manualInput, searchType,
                   orderInfo, searchResults, isLoading, error, scanCount,
                   lastScannedData, showOrderDetails, showSearchResults,
                   tasks, sent, offlineTasks, disabledWorks, parseVars,
                   routeVars, qrVars, generatorVars, pageVars>>

closeOfflineManager ==
    /\ OfflineScreen
    /\ showOfflineManager' = FALSE
    /\ SetView(NewView(storage))
    /\ offlineTasks' = Orphaned(offlineTasks)
    /\ UNCHANGED <<scannerData, showScanner, manualInput, searchType,
                   orderInfo, searchResults, isLoading, error, scanCount,
                   lastScannedData, showOrderDetails, showSearchResults,
                   tasks, sent, disabledWorks, parseVars, routeVars, qrVars,
                   generatorVars, pageVars>>

ModalInit ==
    /\ scannerData = Absent
    /\ showScanner = FALSE
    /\ manualInput = <<>>
    /\ searchType = SearchType.auto
    /\ orderInfo = 0
    /\ searchResults = <<>>
    /\ isLoading = FALSE
    /\ error = "null"
    /\ scanCount = 0
    /\ lastScannedData = Absent
    /\ showOrderDetails = FALSE
    /\ showOfflineManager = FALSE
    /\ showSearchResults = FALSE
    /\ tasks = <<>>
    /\ sent = <<>>
    /\ ParseIdle
    /\ RouteIdle
    /\ OfflineIdle
    /\ QRIdle
    /\ GeneratorIdle
    /\ ActionsIdle
    /\ MonitorIdle

ModalNext ==
    \/ ScannerDelivers
    \/ startCameraScanning
    \/ stopCameraScanning
    \/ handleScanSuccess
    \/ fetchOrderData
    \/ setManualInput
    \/ setSearchType
    \/ handleManualSearch
    \/ manualSearchReturns
    \/ selectOrderFromResults
    \/ handleBackFromSearchResults
    \/ viewOrderDetails
    \/ handleBackFromDetails
    \/ newSearch
    \/ openOfflineManager
    \/ closeOfflineManager

SpecModal == ModalInit /\ [][ModalNext]_vars

(***************************************************************************)
(* Claims about the scanner view.                                          *)
(***************************************************************************)
\* the tasks that are equal to tsk, and a step in which one of them ends or
\* moves on, or one is added
Count(tsk, ts) == Cardinality({i \in 1..Len(ts) : ts[i] = tsk})
Leaves(tsk) == Count(tsk, tasks') < Count(tsk, tasks)
Arrives(tsk) == Count(tsk, tasks') > Count(tsk, tasks)

\* the lookup has failed: the request threw, or the answer is not ok
LookupFailed(resp) == resp.thrown \/ ~resp.ok

\* C6: when the lookup that a scan started fails, the view ends with a
\* message in error and with isLoading false
C6_ScanFailureSetsError ==
    [][\A i \in 1..Len(tasks) :
          (/\ tasks[i].kind = "scan"
           /\ tasks[i].pc = "fetch"
           /\ LookupFailed(tasks[i].resp)
           /\ Leaves(tasks[i]))
              => (error' # "null" /\ isLoading' = FALSE)]_vars

\* none of the five formats: no #digits, no digits only, no /orders/digits,
\* no gid://shopify/Order/digits, no JSON object with an id that counts
MatchesNoFormat(s) ==
    /\ ~HashForm(s)
    /\ ~AllDigits(s)
    /\ ~HasOrderAfter(s, ORDERS)
    /\ ~HasOrderAfter(s, GID)
    /\ JsonPayloadId(s) = Null

\* C7: a scan that the view takes up hides the scanner and is counted; when
\* its value matches none of the formats, the scan sets error to the
\* invalid-format message, leaves orderInfo as it is and sends no search
\* request, neither then nor later
C7_UnparseableScan ==
    /\ [](\A i \in 1..Len(tasks) :
             (tasks[i].kind = "scan" /\ MatchesNoFormat(tasks[i].data))
                 => tasks[i].pc = "toast")
    /\ [][\A data \in ScanValues :
             /\ Arrives(ScanTask(data)) =>
                   /\ showScanner' = FALSE
                   /\ scanCount' = scanCount + 1
                   /\ lastScannedData' = data
             /\ (MatchesNoFormat(data) /\ Leaves(ScanTask(data))) =>
                   /\ error' = INVALID_QR
                   /\ orderInfo' = orderInfo
                   /\ sent' = sent
                   /\ \E i \in 1..Len(tasks) :
                         /\ tasks[i] = ScanTask(data)
                         /\ tasks' = Remove(tasks, i)
                   /\ showScanner' = showScanner
                   /\ scanCount' = scanCount]_vars

\* an order is shown, and a later scan of a value of no format has ended
\* with the message
C7_Witness ==
    /\ orderInfo # 0
    /\ MatchesNoFormat(lastScannedData)
    /\ scanCount = 2
    /\ error = INVALID_QR
    /\ ~showScanner
    /\ tasks = <<>>
    /\ Len(sent) = 1

\* a search request of the view is in flight
InFlight == \E i \in 1..Len(tasks) : tasks[i].pc = "fetch"

\* C14: isLoading is true in every state in which a search request that the
\* scanner view has sent is still in flight, however scans and manual
\* searches interleave
C14_LoadingWhileInFlight == InFlight => isLoading

\* C15: a scanner value that has been processed, and is still the value the
\* scanner holds, is not processed again by a step in which the scanner
\* delivers nothing new: no scan is taken up and none is counted
C15_OnlyNewScanData ==
    [][(/\ lastScannedData = scannerData
        /\ scannerData' = scannerData)
          => \A data \in ScanValues : ~Arrives(ScanTask(data))]_vars

\* the answer of a manual search with n orders is taken in this step
ManualAnswer(n) ==
    \E i \in 1..Len(tasks) :
        /\ tasks[i].kind = "manual"
        /\ Leaves(tasks[i])
        /\ Len(searchOrders(tasks[i].resp).orders) = n

\* what a step does to the list of results
ListStep ==
    /\ ManualAnswer(1) =>
          /\ showSearchResults' = showSearchResults
          /\ searchResults' = searchResults
          /\ \E i \in 1..Len(tasks) :
                /\ tasks[i].kind = "manual"
                /\ Leaves(tasks[i])
                /\ orderInfo' = searchOrders(tasks[i].resp).orders[1]
    /\ ManualAnswer(0) => (showSearchResults' = showSearchResults)
    /\ (showSearchResults /\ ~showSearchResults') => (searchResults' = <<>>)
    /\ (searchResults # <<>> /\ searchResults' = <<>>) => ~showSearchResults'

\* C16: the list of results is shown only with at least two orders in it; a
\* manual search that returns one order sets orderInfo to it and does not
\* show the list, one that returns none does not show it, and the list is
\* hidden and emptied in one step, as selecting an order and going back do
C16_ListOnlyOfSeveral ==
    /\ [](showSearchResults => Len(searchResults) >= 2)
    /\ [][ListStep]_vars

\* an order of a list has been selected: the list is hidden and empty, and
\* nothing is in flight
C16_Witness ==
    /\ orderInfo = 2
    /\ ~showSearchResults
    /\ searchResults = <<>>
    /\ tasks = <<>>
    /\ Len(sent) = 1
    /\ scanCount = 0

(***************************************************************************)
(* The offline manager's handlers.  The device may hold anything in its    *)
(* local storage when the application starts.                              *)
(***************************************************************************)
StaleStorage ==
    (CACHE_KEY :> Item(<<CachedOrder("1003", NotSynced)>>))
        @@ (SYNC_STATUS_KEY :>
                Item([isOnline |-> FALSE, lastSync |-> Time.null,
                      pendingSync |-> 1, totalCached |-> 1]))
        @@ (SYNC_LOG_KEY :> Item(<<SyncLogEntry(LogText.cleared, "")>>))
Storages == {EmptyStorage, StaleStorage}

\* room for one more waiting handler, and for the entries of one more press
OfflineRoom == Len(offlineTasks) < MaxOfflineTasks
LogRoom == Len(syncLog) < MaxLog

\* the reload button calls loadCachedData
PressReload ==
    /\ OfflineScreen /\ LogRoom
    /\ SetView(loadCachedData(View))
    /\ UNCHANGED <<offlineTasks, disabledWorks, exceptOffline>>

\* the clear button calls clearCache
PressClear ==
    /\ OfflineScreen
    /\ SetView(clearCache(View))
    /\ UNCHANGED <<offlineTasks, disabledWorks, exceptOffline>>

\* the sync button calls syncData, which runs to its first wait, or to its
\* end when no order is pending
PressSync ==
    /\ OfflineScreen /\ LogRoom /\ OfflineRoom
    /\ disabledWorks => ~(isSyncing \/ ~syncStatus.isOnline)
    /\ IF ~syncStatus.isOnline
       THEN UNCHANGED <<cachedOrders, syncStatus, isSyncing, syncLog,
                        storage, offlineTasks>>
       ELSE LET pendingOrders == SelectSeq(cachedOrders, IsPending)
            IN  IF pendingOrders = <<>>
                THEN /\ SetView(SyncEnd(SyncStart(View), 0))
                     /\ UNCHANGED offlineTasks
                ELSE /\ SetView(SyncStart(View))
                     /\ offlineTasks' =
                            Append(offlineTasks, SyncTask(pendingOrders))
    /\ UNCHANGED <<disabledWorks, exceptOffline>>

\* the one second of an order of syncData is over: the order is marked, and
\* after the last order syncData runs to its end
SyncTimerFires(i) ==
    LET task == offlineTasks[i]
        order == Head(task.rest)
        more == Tail(task.rest)
        marked == SyncOrder(View, order)
    IN  /\ task.kind = "sync"
        /\ offlineTasks' =
            IF more = <<>> THEN Remove(offlineTasks, i)
            ELSE [offlineTasks EXCEPT ![i].rest = more]
        /\ IF ~task.live
           THEN UNCHANGED <<cachedOrders, syncStatus, isSyncing, syncLog,
                            storage>>
           ELSE IF more = <<>> THEN SetView(SyncEnd(marked, task.n))
           ELSE SetView(marked)
        /\ UNCHANGED <<disabledWorks, exceptOffline>>

\* the test button calls testConnection, which waits two seconds
PressTestConnection ==
    /\ OfflineScreen /\ LogRoom /\ OfflineRoom
    /\ SetView(TestStart(View))
    /\ offlineTasks' = Append(offlineTasks, TestTask)
    /\ UNCHANGED <<disabledWorks, exceptOffline>>

TestTimerFires(i) ==
    LET task == offlineTasks[i]
    IN  /\ task.kind = "test"
        /\ offlineTasks' = Remove(offlineTasks, i)
        /\ IF ~task.live
           THEN UNCHANGED <<cachedOrders, syncStatus, isSyncing, syncLog,
                            storage>>
           ELSE SetView(TestEnd(View))
        /\ UNCHANGED <<disabledWorks, exceptOffline>>

OfflineInit ==
    /\ ParseIdle
    /\ RouteIdle
    /\ ModalIdle
    /\ cachedOrders = <<>>
    /\ syncStatus = InitialSyncStatus
    /\ isSyncing = FALSE
    /\ syncLog = <<>>
    /\ offlineTasks = <<>>
    /\ storage \in Storages
    /\ disabledWorks \in BOOLEAN
    /\ QRIdle
    /\ GeneratorIdle
    /\ ActionsIdle
    /\ MonitorIdle

OfflineNext ==
    \/ openOfflineManager
    \/ closeOfflineManager
    \/ PressReload
    \/ PressClear
    \/ PressSync
    \/ PressTestConnection
    \/ \E i \in 1..Len(offlineTasks) : SyncTimerFires(i)
    \/ \E i \in 1..Len(offlineTasks) : TestTimerFires(i)

SpecOffline == OfflineInit /\ [][OfflineNext]_vars

(***************************************************************************)
(* Claims about the offline manager.                                       *)
(***************************************************************************)

\* C5: no operation of the offline manager writes to or reads the local
\* storage: every step leaves the storage and everything else outside the
\* manager's own state as it was (the scanner's flag that shows the manager
\* apart, which opening and closing set), and whenever the manager is
\* opened its state is the two mock orders 1001 (synced) and 1002 (pending),
\* two cached, one pending, last sync that of 1001, with the two log entries
\* of the mount, whatever the storage holds and whatever was done while it
\* was open before.
C5_NothingPersisted ==
    [][/\ storage' = storage
       /\ UNCHANGED <<parseVars, routeVars, qrVars, generatorVars, pageVars,
                      scannerData, showScanner,
                      manualInput, searchType, orderInfo, searchResults,
                      isLoading, error, scanCount, lastScannedData,
                      showOrderDetails, showSearchResults, tasks, sent>>
       /\ (~showOfflineManager /\ showOfflineManager') =>
            /\ cachedOrders' =
                <<[id |-> "1001", orderNumber |-> <<"#", "1001">>,
                   lastSynced |-> Time.mock],
                  [id |-> "1002", orderNumber |-> <<"#", "1002">>,
                   lastSynced |-> NotSynced]>>
            /\ syncStatus' =
                [isOnline |-> TRUE, lastSync |-> Time.mock,
                 pendingSync |-> 1, totalCached |-> 2]
            /\ isSyncing' = FALSE
            /\ syncLog' =
                <<[message |-> LogText.online, detail |-> ""],
                  [message |-> LogText.loaded, detail |-> ""]>>
      ]_vars

\* the manager is open again with the two mock orders while a sync that was
\* started when it was open before is still running, on a device whose
\* storage holds other orders
C5_Witness ==
    /\ showOfflineManager
    /\ storage = StaleStorage
    /\ \E i \in 1..Len(offlineTasks) :
        offlineTasks[i].kind = "sync" /\ ~offlineTasks[i].live
    /\ Len(cachedOrders) = 2
    /\ cachedOrders[1].id = "1001" /\ cachedOrders[2].id = "1002"
    /\ syncStatus.pendingSync = 1
    /\ ~isSyncing

\* the cached orders that wait for their sync
PendingOrders(orders) == {i \in 1..Len(orders) : orders[i].lastSynced = NotSynced}

\* a syncData runs to its end in this step
SyncCompletes ==
    /\ syncLog' # syncLog
    /\ syncLog' # <<>>
    /\ syncLog'[1].message = LogText.syncDone

\* C23: whatever is pressed (reload, sync, clear, connection test), also
\* while a sync waits, totalCached is the number of cached orders and
\* pendingSync the number of cached orders without lastSynced; a sync that
\* completes leaves every cached order with lastSynced set and pendingSync 0
C23_CountsMatchCache ==
    /\ [](/\ syncStatus.totalCached = Len(cachedOrders)
          /\ syncStatus.pendingSync = Cardinality(PendingOrders(cachedOrders)))
    /\ [][SyncCompletes =>
            /\ PendingOrders(cachedOrders') = {}
            /\ syncStatus'.pendingSync = 0]_vars

\* a sync has completed after the cache was reloaded while it waited
C23_Witness ==
    /\ showOfflineManager
    /\ Len(syncLog) >= 4
    /\ syncLog[1].message = LogText.syncDone
    /\ syncLog[2].message = LogText.synced
    /\ syncLog[3].message = LogText.loaded
    /\ syncLog[4].message = LogText.syncStarted
    /\ Len(cachedOrders) = 2
    /\ syncStatus.pendingSync = 0

\* C24: syncStatus.isOnline is true in every state, so syncData never finds
\* the manager offline and never rejects a sync
C24_AlwaysOnline ==
    /\ syncStatus.isOnline
    /\ \A i \in 1..Len(syncLog) : syncLog[i].message # LogText.offline

\* a connection test has run to its end on a device whose storage holds a
\* status that says offline
C24_Witness ==
    /\ showOfflineManager
    /\ storage = StaleStorage
    /\ ~storage[SYNC_STATUS_KEY].value.isOnline
    /\ syncLog # <<>>
    /\ syncLog[1].message = LogText.testOk
    /\ syncStatus.isOnline

(***************************************************************************)
(* The QR endpoint over several requests.  A request here has passed       *)
(* authenticate.admin and has an order id.                                 *)
(***************************************************************************)
Times == <<NOW, LATER>>
QROrderIds == {<<"7">>}
QRFormats == {QRFormat.simple, QRFormat.json, QRFormat.url}
QRSizes == {<<"1", "0", "0">>}

\* the loader answers a request
QRCodeServed ==
    /\ Len(qrLog) < MaxQRRequests
    /\ \E id \in QROrderIds, format \in QRFormats, size \in Optional(QRSizes) :
        LET r == QRCodeResponse(id, format, size, Times[clock])
        IN  qrLog' = Append(qrLog,
                [id |-> id, format |-> format, size |-> size,
                 data |-> r.data, svg |-> r.svg])
    /\ UNCHANGED <<clock, parseVars, exceptQR>>

\* time passes between two requests
ClockTicks ==
    /\ clock < Len(Times)
    /\ clock' = clock + 1
    /\ UNCHANGED <<qrLog, parseVars, exceptQR>>

QRInit ==
    /\ ParseIdle
    /\ RouteIdle
    /\ ModalIdle
    /\ OfflineIdle
    /\ QRIdle
    /\ GeneratorIdle
    /\ ActionsIdle
    /\ MonitorIdle

QRNext ==
    \/ QRCodeServed
    \/ ClockTicks

SpecQR == QRInit /\ [][QRNext]_vars

\* C13: the picture is a function of the data and the size: two requests
\* with the same order id, the same format, simple or url, and the same size
\* are answered with the same picture; and in every picture the cell (x, y)
\* of the 25 x 25 pattern has a black rectangle exactly when
\* simpleHash(data + x + y) is even
SamePicture ==
    \A i, j \in 1..Len(qrLog) :
        (/\ qrLog[i].id = qrLog[j].id
         /\ qrLog[i].format = qrLog[j].format
         /\ qrLog[i].format \in {QRFormat.simple, QRFormat.url}
         /\ qrLog[i].size = qrLog[j].size) => qrLog[i].svg = qrLog[j].svg

InPattern(svg, x, y) == \E k \in 1..Len(svg.pattern) : svg.pattern[k] = <<x, y>>

CellsByHash(entry) ==
    \A x, y \in 0..24 :
        InPattern(entry.svg, x, y) <=>
            simpleHash(entry.data \o NumText(x) \o NumText(y)).lo % 2 = 0

RoundTripIds == DigitStrs \cup {GID \o d : d \in DigitStrs}
RoundTripFormats == {QRFormat.simple, QRFormat.json, QRFormat.url, <<"x">>}

\* the scanner delivers the data of the picture that the endpoint returned
ScanPicture ==
    /\ handler = "qrcode"
    /\ rpc = "done"
    /\ response.status = 200
    /\ parsePc = "idle"
    /\ qrData' = response.body.text
    /\ parsed' = Undefined
    /\ parsePc' = "scanned"
    /\ UNCHANGED exceptParse

RoundTripInit ==
    /\ handler = "qrcode"
    /\ request \in {[NoParams EXCEPT !.id = id, !.format = f] :
                        id \in RoundTripIds, f \in Optional(RoundTripFormats)}
    /\ rpc = "start"
    /\ authState = "none"
    /\ queries = <<>>
    /\ results = <<>>
    /\ response = Absent
    /\ ParseIdle
    /\ ModalIdle
    /\ OfflineIdle
    /\ QRIdle
    /\ GeneratorIdle
    /\ ActionsIdle
    /\ MonitorIdle

RoundTripNext ==
    \/ Enter
    \/ AuthResolves
    \/ AuthRejects
    \/ ScanPicture
    \/ ParseStep

SpecRoundTrip == RoundTripInit /\ [][RoundTripNext]_vars

\* the digits of an order id that is a digit string or gid://shopify/Order/
\* followed by digits
OrderDigits(id) == IF AllDigits(id) THEN id ELSE SubSeq(id, Len(GID) + 1, Len(id))

\* C19: for an order id that is a digit string or of the form
\* gid://shopify/Order/<digits> and for each of the formats simple, json and
\* url, parseQRCode applied to the data that the QR endpoint embeds for the
\* id and the format returns the digit string of the order
C19_GeneratedCodeParsesBack ==
    (/\ parsePc = "parsed"
     /\ request.format \in {QRFormat.simple, QRFormat.json, QRFormat.url})
        => parsed = Str(OrderDigits(request.id))

\* the JSON code of the order gid://shopify/Order/17 has been scanned and
\* parsed to 17
C19_Witness ==
    /\ parsePc = "parsed"
    /\ request.format = QRFormat.json
    /\ request.id = GID \o <<"1", "7">>
    /\ StartsWith(qrData, <<"{">>)
    /\ parsed = Str(<<"1", "7">>)

(***************************************************************************)
(* More claims about the route handlers.                                   *)
(***************************************************************************)

\* the orders that the upstream has matched: the order of a lookup by id,
\* the edges of a search
Matched(q, res) ==
    IF res.thrown THEN 0
    ELSE IF q.op = "getOrderById" THEN (IF res.order # 0 THEN 1 ELSE 0)
    ELSE IF res.hasEdges THEN Len(res.edges) ELSE 0

\* C21: in every response of the order search with status 200, totalFound is
\* the number of entries of orders; an upstream result without errors and
\* without a matching order is answered with 200, totalFound 0 and no
\* orders; an upstream result with errors is answered with 400, with
\* matching orders too
C21_TotalFoundCountsOrders ==
    (handler = "orderSearch" /\ Answered) =>
        /\ response.status = 200 =>
              response.body.total = Len(response.body.orders)
        /\ results # <<>> =>
              LET res == results[Len(results)]
                  q == queries[Len(queries)]
              IN  /\ (~res.thrown /\ ~res.errors /\ Matched(q, res) = 0) =>
                        /\ response.status = 200
                        /\ response.body.total = 0
                        /\ response.body.orders = <<>>
                  /\ (~res.thrown /\ res.errors) => response.status = 400
                  /\ (~res.thrown /\ ~res.errors /\ Matched(q, res) > 0) =>
                        /\ response.status = 200
                        /\ Len(response.body.orders) = Matched(q, res)

\* C25: every test request to the order search that the monitoring and debug
\* pages issue carries its term under the parameter that the endpoint
\* reads: once authenticated, the endpoint has sent an upstream query for it
\* and has not answered 400 for a missing term
C25_TestRequestsCarryTerm ==
    (/\ handler = "orderSearch"
     /\ request \in TestSearchRequests
     /\ authState = "ok") =>
        /\ Len(queries) = 1
        /\ Answered => response.body.kind # "missing-query"

\* a search has been answered with 400 for a result that carries errors and
\* two matching orders
C21_Witness ==
    /\ handler = "orderSearch"
    /\ Answered
    /\ response.status = 400
    /\ results # <<>>
    /\ results[Len(results)].errors
    /\ Len(results[Len(results)].edges) = 2

(***************************************************************************)
(* The QR generator view of one order.  generateQR sets isGenerating, asks *)
(* the QR endpoint and, when the answer is there, stores the picture or    *)
(* shows the error, and sets isGenerating false in its finally.            *)
(* generateAllFormats sets isGenerating, starts three generateQR calls     *)
(* with the size of the moment and awaits them all.  The answer of the     *)
(* endpoint is chosen when the request is sent.                            *)
(***************************************************************************)

MaxPresses == 2
MaxCalls == 3

GenFormats == <<"simple", "json", "url">>
GenSizes == {<<"2", "0", "0">>, <<"3", "0", "0">>}

\* what becomes of a request: response.ok, a response that is not ok, or a
\* fetch that throws
Outcomes == {"ok", "notOk", "thrown"}

\* the key of a picture in generatedQRs
QRKey(format, size) == [format |-> format, size |-> size]

\* a generateQR call that waits for the endpoint; bulk is the
\* generateAllFormats call that awaits it, 0 for none
GenTask(format, size, outcome, bulk) ==
    [format |-> format, size |-> size, outcome |-> outcome, bulk |-> bulk]

\* a notification
Toast(text, format) == [text |-> text, format |-> format]

\* the notification of generateQR for an outcome
GeneratedToast(task) ==
    IF task.outcome = "ok" THEN Toast("generated", task.format)
    ELSE IF task.outcome = "notOk" THEN Toast("generation error", task.format)
    ELSE Toast("generation failed", task.format)

\* generateQR returns normally whatever happens to its request: its catch
\* takes every exception, so its promise is never rejected
Rejected(task) == FALSE

\* generateAllFormats after Promise.all: the success notification, or the
\* one of its catch when a call was rejected
AllSettledToast(rejected) ==
    IF rejected THEN Toast("some failed", "all")
    ELSE Toast("all completed", "all")

\* a button of the generate section can be pressed, for so many calls
CanPressGenerate(calls) ==
    /\ presses < MaxPresses
    /\ Len(genTasks) + calls <= MaxCalls
    /\ disabledWorks => ~isGenerating

\* the size field is edited
setQrSize ==
    /\ \E size \in GenSizes :
          /\ size # qrSize
          /\ qrSize' = size
    /\ UNCHANGED <<isGenerating, generatedQRs, genTasks, bulks, toasts,
                   presses, exceptGenerator>>

\* the button of one format is pressed: generateQR up to its fetch
generateQR(format) ==
    /\ CanPressGenerate(1)
    /\ presses' = presses + 1
    /\ isGenerating' = TRUE
    /\ \E outcome \in Outcomes :
          genTasks' = Append(genTasks, GenTask(format, qrSize, outcome, 0))
    /\ UNCHANGED <<qrSize, generatedQRs, bulks, toasts, exceptGenerator>>

\* the button of all formats is pressed: generateAllFormats up to its await,
\* the three generateQR calls up to their fetch
generateAllFormats ==
    /\ CanPressGenerate(3)
    /\ presses' = presses + 1
    /\ isGenerating' = TRUE
    /\ toasts' = Append(toasts, Toast("generating", "all"))
    /\ \E outcomes \in [1..3 -> Outcomes] :
          /\ genTasks' = genTasks \o
                [k \in 1..3 |->
                    GenTask(GenFormats[k], qrSize, outcomes[k], presses')]
          /\ bulks' = Append(bulks, [id |-> presses', outcomes |-> outcomes])
    /\ UNCHANGED <<qrSize, generatedQRs, exceptGenerator>>

\* the calls of a bulk generation that are still waiting
Waiting(ts, bulk) == {i \in 1..Len(ts) : ts[i].bulk = bulk}

\* the answer to a generateQR call is there: the picture is stored or the
\* error is shown, and the finally sets isGenerating false; when the call
\* was the last one that a generateAllFormats awaited, that one goes on
\* with its notification and its finally
GenerateQRDone(i) ==
    LET task == genTasks[i]
        rest == Remove(genTasks, i)
        last == task.bulk # 0 /\ Waiting(rest, task.bulk) = {}
    IN  /\ generatedQRs' =
              IF task.outcome = "ok"
              THEN generatedQRs \cup {QRKey(task.format, task.size)}
              ELSE generatedQRs
        /\ toasts' =
              IF last
              THEN toasts \o <<GeneratedToast(task),
                               AllSettledToast(Rejected(task))>>
              ELSE Append(toasts, GeneratedToast(task))
        /\ isGenerating' = FALSE
        /\ genTasks' = rest
        /\ bulks' = IF last
                    THEN SelectSeq(bulks, LAMBDA b : b.id # task.bulk)
                    ELSE bulks
        /\ UNCHANGED <<qrSize, presses, exceptGenerator>>

generateQRReturns == \E i \in 1..Len(genTasks) : GenerateQRDone(i)

\* the copy button of a generated picture is pressed
shareQR(format) ==
    /\ presses < MaxPresses
    /\ QRKey(format, qrSize) \in generatedQRs
    /\ presses' = presses + 1
    /\ toasts' = Append(toasts,
          IF QRKey(format, qrSize) \in generatedQRs
          THEN Toast("copied", format)
          ELSE Toast("nothing to share", format))
    /\ UNCHANGED <<qrSize, isGenerating, generatedQRs, genTasks, bulks,
                   exceptGenerator>>

\* the print button of a generated picture is pressed
printQR(format) ==
    /\ presses < MaxPresses
    /\ QRKey(format, qrSize) \in generatedQRs
    /\ presses' = presses + 1
    /\ toasts' = Append(toasts,
          IF QRKey(format, qrSize) \in generatedQRs
          THEN Toast("printing", format)
          ELSE Toast("nothing to print", format))
    /\ UNCHANGED <<qrSize, isGenerating, generatedQRs, genTasks, bulks,
                   exceptGenerator>>

GeneratorInit ==
    /\ ParseIdle
    /\ RouteIdle
    /\ ModalIdle
    /\ cachedOrders = <<>>
    /\ syncStatus = InitialSyncStatus
    /\ isSyncing = FALSE
    /\ syncLog = <<>>
    /\ offlineTasks = <<>>
    /\ storage = EmptyStorage
    /\ disabledWorks \in BOOLEAN
    /\ QRIdle
    /\ GeneratorIdle
    /\ ActionsIdle
    /\ MonitorIdle

GeneratorNext ==
    \/ setQrSize
    \/ \E k \in 1..3 : generateQR(GenFormats[k])
    \/ generateAllFormats
    \/ generateQRReturns
    \/ \E k \in 1..3 : shareQR(GenFormats[k])
    \/ \E k \in 1..3 : printQR(GenFormats[k])

SpecGenerator == GeneratorInit /\ [][GeneratorNext]_vars

(***************************************************************************)
(* Claims about the QR generator view.                                     *)
(***************************************************************************)

\* C17: isGenerating is true from the start of a generateAllFormats until
\* all three of its requests have completed
C17_GeneratingUntilAllDone == bulks # <<>> => isGenerating

\* a generateAllFormats ends in this step
BulkEnds(b) ==
    /\ \E i \in 1..Len(bulks) : bulks[i] = b
    /\ \A i \in 1..Len(bulks') : bulks'[i] # b

\* C18: when at least one format of a bulk generation fails, by an answer
\* that is not ok or by a thrown request, the last notification of the bulk
\* generation reports that some failed, and not that all completed
C18_PartialFailureReported ==
    [][\A i \in 1..Len(bulks) :
          (/\ BulkEnds(bulks[i])
           /\ \E k \in 1..3 : bulks[i].outcomes[k] # "ok")
             => /\ toasts'[Len(toasts')] = Toast("some failed", "all")
                /\ \A j \in Len(toasts) + 1..Len(toasts') :
                      toasts'[j] # Toast("all completed", "all")]_vars

(***************************************************************************)
(* The order actions view of one order (OrderActions.tsx).  A handler      *)
(* checks its fields, sets isProcessing, sends its request and, when the   *)
(* answer is there, notifies, and sets isProcessing false in its finally.  *)
(* What becomes of the request is chosen when it is sent.                  *)
(***************************************************************************)

MaxActions == 2

ActionKinds ==
    {"refund", "cancel", "fulfillment", "fulfill", "notify email",
     "notify sms"}

\* what becomes of a request: an answer that is ok or not, with a body that
\* response.json() parses or throws at, or a fetch that throws
ActionOutcomes == {"ok", "ok unparsed", "error", "error unparsed", "thrown"}

\* what a field can hold
FieldTexts == {"", "text"}

\* a handler that waits for the answer to its request
ActionTask(kind, outcome) == [kind |-> kind, outcome |-> outcome]

\* the handlers that pass the answer on to onOrderUpdated
UpdatingKinds == {"refund", "cancel", "fulfillment", "fulfill"}

\* a button of the view can be pressed
CanPressAction ==
    /\ started < MaxActions
    /\ disabledWorks => ~isProcessing

setRefundAmount ==
    /\ \E text \in FieldTexts : text # refundAmount /\ refundAmount' = text
    /\ UNCHANGED <<isProcessing, refundReason, cancelReason,
                   fulfillmentStatus, currentOrderInfo, actionTasks,
                   actionToast, started, exceptActions>>

setRefundReason ==
    /\ \E text \in FieldTexts : text # refundReason /\ refundReason' = text
    /\ UNCHANGED <<isProcessing, refundAmount, cancelReason,
                   fulfillmentStatus, currentOrderInfo, actionTasks,
                   actionToast, started, exceptActions>>

setCancelReason ==
    /\ \E text \in FieldTexts : text # cancelReason /\ cancelReason' = text
    /\ UNCHANGED <<isProcessing, refundAmount, refundReason,
                   fulfillmentStatus, currentOrderInfo, actionTasks,
                   actionToast, started, exceptActions>>

setFulfillmentStatus ==
    /\ \E text \in FieldTexts :
          text # fulfillmentStatus /\ fulfillmentStatus' = text
    /\ UNCHANGED <<isProcessing, refundAmount, refundReason, cancelReason,
                   currentOrderInfo, actionTasks, actionToast, started,
                   exceptActions>>

\* a handler up to its fetch: with a field missing it notifies and returns
StartAction(kind, fieldsFilled) ==
    /\ started' = started + 1
    /\ IF ~fieldsFilled
       THEN /\ actionToast' = "fill in the fields"
            /\ UNCHANGED <<isProcessing, actionTasks>>
       ELSE /\ isProcessing' = TRUE
            /\ \E outcome \in ActionOutcomes :
                  actionTasks' = Append(actionTasks, ActionTask(kind, outcome))
            /\ UNCHANGED actionToast
    /\ UNCHANGED <<refundAmount, refundReason, cancelReason,
                   fulfillmentStatus, currentOrderInfo, exceptActions>>

handleRefund ==
    /\ CanPressAction
    /\ StartAction("refund", refundAmount # "" /\ refundReason # "")

handleCancel ==
    /\ CanPressAction
    /\ StartAction("cancel", cancelReason # "")

handleFulfillmentUpdate ==
    /\ CanPressAction
    /\ StartAction("fulfillment", fulfillmentStatus # "")

handleMarkAsFulfilled ==
    /\ CanPressAction
    /\ StartAction("fulfill", TRUE)

handleSendNotification ==
    /\ CanPressAction
    /\ \E kind \in {"notify email", "notify sms"} : StartAction(kind, TRUE)

\* the answer was ok: the handler has notified and emptied its fields
\* before it reads the body
Accepted(task) == task.outcome \in {"ok", "ok unparsed"}

\* response.json() or fetch has thrown: the catch of the handler runs; a
\* notification is ok without reading the body
Caught(task) ==
    \/ task.outcome = "thrown"
    \/ task.outcome = "error unparsed"
    \/ task.outcome = "ok unparsed" /\ task.kind \in UpdatingKinds

\* a handler that sets isProcessing false at the end of its try
ActionDoneWithoutFinally(i) ==
    LET task == actionTasks[i]
    IN  /\ actionTasks' = Remove(actionTasks, i)
        /\ isProcessing' = IF Caught(task) THEN isProcessing ELSE FALSE
        /\ refundAmount' =
              IF task.kind = "refund" /\ Accepted(task) THEN ""
              ELSE refundAmount
        /\ refundReason' =
              IF task.kind = "refund" /\ Accepted(task) THEN ""
              ELSE refundReason
        /\ cancelReason' =
              IF task.kind = "cancel" /\ Accepted(task) THEN ""
              ELSE cancelReason
        /\ currentOrderInfo' =
              IF task.outcome = "ok" /\ task.kind \in UpdatingKinds
              THEN "updated" ELSE currentOrderInfo
        /\ actionToast' =
              IF Caught(task) THEN "failed"
              ELSE IF task.outcome = "error" THEN "error of the answer"
              ELSE IF task.kind \in UpdatingKinds THEN "order updated"
              ELSE "done"
        /\ UNCHANGED <<fulfillmentStatus, started, exceptActions>>

\* the answer to the request of a handler is there, or the fetch has
\* thrown: the handler notifies, passes an updated order on, and sets
\* isProcessing false in its finally
ActionDone(i) ==
    LET task == actionTasks[i]
    IN  /\ actionTasks' = Remove(actionTasks, i)
        /\ isProcessing' = FALSE
        /\ refundAmount' =
              IF task.kind = "refund" /\ Accepted(task) THEN ""
              ELSE refundAmount
        /\ refundReason' =
              IF task.kind = "refund" /\ Accepted(task) THEN ""
              ELSE refundReason
        /\ cancelReason' =
              IF task.kind = "cancel" /\ Accepted(task) THEN ""
              ELSE cancelReason
        /\ currentOrderInfo' =
              IF task.outcome = "ok" /\ task.kind \in UpdatingKinds
              THEN "updated" ELSE currentOrderInfo
        /\ actionToast' =
              IF Caught(task) THEN "failed"
              ELSE IF task.outcome = "error" THEN "error of the answer"
              ELSE IF task.kind \in UpdatingKinds THEN "order updated"
              ELSE "done"
        /\ UNCHANGED <<fulfillmentStatus, started, exceptActions>>

actionReturns == \E i \in 1..Len(actionTasks) : ActionDone(i)

ActionsInit ==
    /\ ParseIdle
    /\ RouteIdle
    /\ ModalIdle
    /\ cachedOrders = <<>>
    /\ syncStatus = InitialSyncStatus
    /\ isSyncing = FALSE
    /\ syncLog = <<>>
    /\ offlineTasks = <<>>
    /\ storage = EmptyStorage
    /\ disabledWorks \in BOOLEAN
    /\ QRIdle
    /\ GeneratorIdle
    /\ isProcessing = FALSE
    /\ refundAmount = ""
    /\ refundReason = ""
    /\ cancelReason = ""
    /\ fulfillmentStatus \in FieldTexts
    /\ currentOrderInfo = "scanned"
    /\ actionTasks = <<>>
    /\ actionToast = "none"
    /\ started = 0
    /\ MonitorIdle

ActionsNext ==
    \/ setRefundAmount
    \/ setRefundReason
    \/ setCancelReason
    \/ setFulfillmentStatus
    \/ handleRefund
    \/ handleCancel
    \/ handleFulfillmentUpdate
    \/ handleMarkAsFulfilled
    \/ handleSendNotification
    \/ actionReturns

\* every request is answered or throws in the end
SpecActions == ActionsInit /\ [][ActionsNext]_vars /\ WF_vars(actionReturns)

(***************************************************************************)
(* Claims about the order actions view.                                    *)
(***************************************************************************)

\* C22: after a handler of the view has been started, isProcessing is false
\* again in the end, whether its request succeeds, is answered with an
\* error (with a body that cannot be parsed too) or throws; every handler
\* that finishes leaves isProcessing false, and it is false whenever no
\* handler is waiting
C22_ProcessingEnds ==
    /\ [](actionTasks = <<>> => ~isProcessing)
    /\ [][Len(actionTasks') < Len(actionTasks) => ~isProcessing']_vars
    /\ (isProcessing ~> ~isProcessing)
    /\ (actionTasks # <<>> ~> actionTasks = <<>>)

\* a refund has finished in its catch: its request has thrown, or the body
\* of an answer that is not ok could not be parsed
C22_Witness ==
    /\ started = 1
    /\ actionTasks = <<>>
    /\ actionToast = "failed"
    /\ refundAmount # "" /\ refundReason # ""
    /\ ~isProcessing

(***************************************************************************)
(* The performance monitor page (part_000).  testAPIPerformance logs its   *)
(* start, fetches its endpoint and, when the answer is there or the        *)
(* request has thrown, updates the metrics of its label and logs the       *)
(* result.  The reload of the page by the auto refresh starts the page     *)
(* anew and is left out.                                                   *)
(***************************************************************************)

MaxTests == 2
HISTORY_LIMIT == 20
LOGS_KEPT == 49

\* what a test can measure, in milliseconds
ResponseTimes == {40}

\* an entry of the log, without its time
LogEntry(type, message) == [type |-> type, message |-> message]

\* [entry, ...prev.slice(0, 49)]
addLog(prev, entry) == <<entry>> \o Slice(prev, LOGS_KEPT)

\* s.slice(-n)
Last(s, n) == IF Len(s) <= n THEN s ELSE SubSeq(s, Len(s) - n + 1, Len(s))

RECURSIVE Sum(_)
Sum(s) == IF s = <<>> THEN 0 ELSE Head(s) + Sum(Tail(s))

\* Math.round(sum / length) of times that are not negative
Average(history) ==
    (2 * Sum(history) + Len(history)) \div (2 * Len(history))

\* prev[label] || the zero metrics
Current(prev, label) ==
    IF prev[label].present THEN prev[label] ELSE ZeroMetric

\* a history that keeps every response time
AnsweredUnsliced(prev, label, success, responseTime) ==
    LET current == Current(prev, label)
        newHistory == Append(current.responseTimeHistory, responseTime)
    IN  [prev EXCEPT ![label] =
            Metric(TRUE, current.totalRequests + 1,
                   IF success THEN current.successRequests + 1
                   ELSE current.successRequests,
                   IF success THEN current.errorRequests
                   ELSE current.errorRequests + 1,
                   Average(newHistory), newHistory,
                   IF success THEN current.lastError ELSE "status")]

\* the update of the metrics for an answer
Answered200(prev, label, success, responseTime) ==
    LET current == Current(prev, label)
        newHistory ==
            Last(Append(current.responseTimeHistory, responseTime),
                 HISTORY_LIMIT)
    IN  [prev EXCEPT ![label] =
            Metric(TRUE, current.totalRequests + 1,
                   IF success THEN current.successRequests + 1
                   ELSE current.successRequests,
                   IF success THEN current.errorRequests
                   ELSE current.errorRequests + 1,
                   Average(newHistory), newHistory,
                   IF success THEN current.lastError ELSE "status")]

\* the update of the metrics in the catch: the fetch or response.json() has
\* thrown
Failed(prev, label) ==
    LET current == Current(prev, label)
    IN  [prev EXCEPT ![label] =
            [current EXCEPT !.totalRequests = @ + 1,
                            !.errorRequests = @ + 1,
                            !.lastError = "message"]]

\* testAPIPerformance up to its fetch
testAPIPerformance ==
    /\ tests < MaxTests
    /\ tests' = tests + 1
    /\ \E label \in ButtonLabels :
          /\ logs' = addLog(logs, LogEntry("info", label))
          /\ monitorTasks' = [monitorTasks EXCEPT ![label] = @ + 1]
    /\ UNCHANGED <<metrics, isMonitoring, exceptMonitor>>

\* the log after the tests of the interval have started, one after the other
RECURSIVE StartAll(_, _)
StartAll(ls, labels) ==
    IF labels = <<>> THEN ls
    ELSE StartAll(addLog(ls, LogEntry("info", Head(labels))), Tail(labels))

\* the interval of the monitoring fires: four tests start
intervalFires ==
    /\ isMonitoring
    /\ tests < MaxTests
    /\ tests' = tests + 1
    /\ logs' = StartAll(logs, IntervalLabels)
    /\ monitorTasks' =
          [l \in Labels |->
              monitorTasks[l] +
                  Cardinality({k \in 1..Len(IntervalLabels) :
                                  IntervalLabels[k] = l})]
    /\ UNCHANGED <<metrics, isMonitoring, exceptMonitor>>

\* the monitoring is started or stopped
toggleMonitoring ==
    /\ tests < MaxTests
    /\ tests' = tests + 1
    /\ logs' = addLog(logs, LogEntry("info",
                  IF isMonitoring THEN "monitoring stopped"
                  ELSE "monitoring started"))
    /\ isMonitoring' = ~isMonitoring
    /\ UNCHANGED <<metrics, monitorTasks, exceptMonitor>>

\* the answer to a test is there, or its request has thrown
testReturns ==
    /\ \E label \in Labels :
          /\ monitorTasks[label] > 0
          /\ monitorTasks' = [monitorTasks EXCEPT ![label] = @ - 1]
          /\ \/ \E success \in BOOLEAN, responseTime \in ResponseTimes :
                   /\ metrics' =
                         Answered200(metrics, label, success, responseTime)
                   /\ logs' = addLog(logs,
                         LogEntry(IF success THEN "success" ELSE "error",
                                  label))
             \/ /\ metrics' = Failed(metrics, label)
                /\ logs' = addLog(logs, LogEntry("error", label))
    /\ UNCHANGED <<isMonitoring, tests, exceptMonitor>>

\* the metrics and the log are emptied, and the reset is logged
resetMetrics ==
    /\ tests < MaxTests
    /\ tests' = tests + 1
    /\ metrics' = [l \in Labels |-> NoMetric]
    /\ logs' = addLog(<<>>, LogEntry("info", "metrics reset"))
    /\ UNCHANGED <<isMonitoring, monitorTasks, exceptMonitor>>

\* the button that clears the log
clearLogs ==
    /\ logs # <<>>
    /\ logs' = <<>>
    /\ UNCHANGED <<metrics, isMonitoring, monitorTasks, tests, exceptMonitor>>

\* the page after n tests of the basic API that were answered ok, the j-th
\* after j milliseconds
Tested(n) ==
    [l \in Labels |->
        IF l = "basic API" /\ n > 0
        THEN LET history == Last([j \in 1..n |-> j], HISTORY_LIMIT)
             IN  Metric(TRUE, n, n, 0, Average(history), history, "none")
        ELSE IF l \in LoaderLabels THEN ZeroMetric ELSE NoMetric]

LoggedTests(n) ==
    Slice([k \in 1..2 * n |->
              LogEntry(IF k % 2 = 1 THEN "success" ELSE "info", "basic API")],
          LOGS_KEPT + 1)

\* the page is fresh, or has run 19 or 25 tests before
TestsBefore == {0, 19, 25}

MonitorInit ==
    /\ ParseIdle
    /\ RouteIdle
    /\ ModalIdle
    /\ OfflineIdle
    /\ QRIdle
    /\ GeneratorIdle
    /\ ActionsIdle
    /\ \E n \in TestsBefore :
          /\ metrics = Tested(n)
          /\ logs = LoggedTests(n)
    /\ isMonitoring = FALSE
    /\ monitorTasks = [l \in Labels |-> 0]
    /\ tests = 0

MonitorNext ==
    \/ testAPIPerformance
    \/ intervalFires
    \/ toggleMonitoring
    \/ testReturns
    \/ resetMetrics
    \/ clearLogs

SpecMonitor == MonitorInit /\ [][MonitorNext]_vars

(***************************************************************************)
(* Claims about the performance monitor.                                   *)
(***************************************************************************)

\* the history of a label has taken up one more response time
OneMoreTime(old, new) ==
    \E responseTime \in ResponseTimes :
        new = IF Len(old) < 20 THEN Append(old, responseTime)
              ELSE Tail(old) \o <<responseTime>>

\* C26: for every label, whatever tests have completed (answered ok,
\* answered not ok, thrown) and whenever the metrics were reset,
\* totalRequests is successRequests plus errorRequests, the history holds
\* at most 20 response times, which are the most recent ones, and the log
\* holds at most 50 entries
C26_MetricsAddUp ==
    /\ [](/\ \A l \in Labels :
               /\ metrics[l].totalRequests =
                     metrics[l].successRequests + metrics[l].errorRequests
               /\ Len(metrics[l].responseTimeHistory) <= 20
          /\ Len(logs) <= 50)
    /\ [][\A l \in Labels :
            \/ metrics'[l].responseTimeHistory =
                  metrics[l].responseTimeHistory
            \/ metrics'[l].responseTimeHistory = <<>>
            \/ OneMoreTime(metrics[l].responseTimeHistory,
                           metrics'[l].responseTimeHistory)]_vars

\* after 25 tests before, a test has been answered and one has thrown: the
\* history and the log are full
C26_Witness ==
    /\ metrics["basic API"].totalRequests = 27
    /\ metrics["basic API"].errorRequests = 1
    /\ metrics["basic API"].responseTimeHistory[20] = 40
    /\ metrics["basic API"].responseTimeHistory[1] = 7
    /\ Len(logs) = 50

====
